---------------------------- MODULE Spec2Model ----------------------------
(***************************************************************************)
(* A model of analyze.py (CeCe course analysis agent): the publish         *)
(* predicate, the publish-state resolver, the wiki-page part of the        *)
(* archive reader, module/week extraction and the objective comparison.    *)
(*                                                                         *)
(* Text is modelled by TLA+ strings (TLC treats a string as a sequence of  *)
(* characters: Len, \o and SubSeq apply).  XML text is modelled as a       *)
(* sequence of markup tokens in document order; the regular-expression     *)
(* operations of the source (re.split on an opening tag, re.search for the *)
(* first <tag>value</tag>) are operators on token sequences.               *)
(***************************************************************************)
EXTENDS Integers, Sequences, FiniteSets, TLC

VARIABLES
    pc,               \* position of the modelled call
    workflow_state,   \* is_published_state: its argument
    pub_result,       \* is_published_state: its return value ("?" before the call)
    module_meta,      \* text of course_settings/module_meta.xml ('' when absent)
    manifest,         \* text of imsmanifest.xml ('' when absent)
    published_hrefs,  \* build_published_file_set: first result
    item_states,      \* build_published_file_set: second result
    id_to_href,       \* build_published_file_set: third result
    archive,          \* the zip archive: member names, and each member's content
    wiki_full,        \* data['wiki_full']: page name -> plain text
    wiki_titles,      \* data['wiki_titles']: names of the published media pages
    wiki_unpublished, \* data['wiki_unpublished']: names of the unpublished pages
    wiki_pub,         \* read_imscc: counter of published pages
    wiki_unpub,       \* read_imscc: counter of unpublished pages
    wiki_i,           \* read_imscc: position of  for page_path in wiki_files
    objectives,       \* result of extract_learning_objectives
    modules,          \* extract_modules: the list it builds and returns
    mod_i,            \* extract_modules: position of  for block in module_blocks
    course_objectives,   \* compare_objectives: first argument
    syllabus_objectives, \* compare_objectives: second argument
    matched,          \* compare_objectives: pairs of a course and a syllabus objective
    course_only,      \* compare_objectives: course objectives without a counterpart
    used_syl_idx,     \* compare_objectives: indices (from 0) of the claimed syllabus objectives
    syllabus_only,    \* compare_objectives: syllabus objectives never claimed
    cmp_i,            \* compare_objectives: position of  for c_obj in course_objectives
    call_args,        \* a call of a pure function: its arguments
    call_result       \* a call of a pure function: its return value ("?" before the call)

vars_pub == <<workflow_state, pub_result>>
vars_xml == <<module_meta, manifest>>
vars_res == <<published_hrefs, item_states, id_to_href>>
vars_wiki == <<wiki_full, wiki_titles, wiki_unpublished, wiki_pub, wiki_unpub, wiki_i>>

vars_mod == <<modules, mod_i>>

vars_cmp == <<course_objectives, syllabus_objectives, matched, course_only,
              used_syl_idx, syllabus_only, cmp_i>>

vars_call == <<call_args, call_result>>

vars == <<pc, vars_pub, vars_xml, vars_res, archive, vars_wiki, objectives, vars_mod,
          vars_cmp, vars_call>>

\* the variables of a part that a specification does not use
IdlePub == workflow_state = "" /\ pub_result = "?"
IdleXml == module_meta = <<>> /\ manifest = <<>>
IdleRes == published_hrefs = {} /\ item_states = <<>> /\ id_to_href = <<>>
IdleWiki ==
    /\ wiki_full = <<>> /\ wiki_titles = <<>> /\ wiki_unpublished = <<>>
    /\ wiki_pub = 0 /\ wiki_unpub = 0 /\ wiki_i = 0
IdleRead == archive = <<>> /\ IdleWiki /\ objectives = <<>>
IdleMod == modules = <<>> /\ mod_i = 0
IdleCmp ==
    /\ course_objectives = <<>> /\ syllabus_objectives = <<>>
    /\ matched = <<>> /\ course_only = <<>> /\ used_syl_idx = {}
    /\ syllabus_only = <<>> /\ cmp_i = 0
IdleCall == call_args = <<>> /\ call_result = "?"

(***************************************************************************)
(* Python values                                                           *)
(***************************************************************************)
\* Python's None where a string is expected (no text of the model holds "~")
None == "~None"

(***************************************************************************)
(* str methods                                                             *)
(***************************************************************************)
UpperLetters == "ABCDEFGHIJKLMNOPQRSTUVWXYZ"
LowerLetters == "abcdefghijklmnopqrstuvwxyz"

\* Python's s[i-1:j] (indices from 1, clipped to the string)
Slice(s, i, j) ==
    LET a == IF i < 1 THEN 1 ELSE i
        b == IF j > Len(s) THEN Len(s) ELSE j
    IN  IF a > b THEN "" ELSE SubSeq(s, a, b)

CharAt(s, i) == Slice(s, i, i)

\* s[i-1] for an index of s
Char(s, i) == SubSeq(s, i, i)

UpperSet == {CharAt(UpperLetters, i) : i \in 1..26}

Letters == {CharAt(LowerLetters, i) : i \in 1..26}

Digits == "0123456789"

LowerTable ==
    [c \in UpperSet |->
        CharAt(LowerLetters, CHOOSE i \in 1..26 : CharAt(UpperLetters, i) = c)]

\* str.lower() on one character
LowerChar(c) == IF c \in UpperSet THEN LowerTable[c] ELSE c

RECURSIVE Lower(_)
\* str.lower()
Lower(s) ==
    IF Len(s) = 0 THEN ""
    ELSE IF Len(s) = 1 THEN LowerChar(s)
    ELSE Lower(Slice(s, 1, Len(s) \div 2)) \o Lower(Slice(s, Len(s) \div 2 + 1, Len(s)))

\* the whitespace characters str.strip() removes (those the model's texts use)
IsSpace(c) == c \in {" ", "\t", "\n", "\r"}

RECURSIVE LStrip(_)
LStrip(s) == IF Len(s) > 0 /\ IsSpace(CharAt(s, 1)) THEN LStrip(Tail(s)) ELSE s

RECURSIVE RStrip(_)
RStrip(s) ==
    IF Len(s) > 0 /\ IsSpace(CharAt(s, Len(s)))
    THEN RStrip(Slice(s, 1, Len(s) - 1))
    ELSE s

\* str.strip()
Strip(s) == RStrip(LStrip(s))

\* Python's  sub in s
Contains(s, sub) ==
    \E i \in 1..(Len(s) - Len(sub) + 1) : SubSeq(s, i, i + Len(sub) - 1) = sub

\* str.find(sub, from) counted from 1: the first index >= from at which sub
\* occurs in s, or 0
IndexOf(s, sub, from) ==
    LET n == Len(sub)
        Occurs(i) == SubSeq(s, i, i + n - 1) = sub
    IN  IF \E i \in from..(Len(s) - n + 1) : Occurs(i)
        THEN CHOOSE i \in from..(Len(s) - n + 1) :
                 Occurs(i) /\ \A j \in from..(i - 1) : ~Occurs(j)
        ELSE 0

RECURSIVE Replace(_, _, _)
\* str.replace(old, new), old not empty
Replace(s, old, new) ==
    LET i == IndexOf(s, old, 1)
    IN  IF i = 0 THEN s
        ELSE Slice(s, 1, i - 1) \o new
                \o Replace(Slice(s, i + Len(old), Len(s)), old, new)

\* str.startswith / str.endswith
StartsWith(s, p) == Len(s) >= Len(p) /\ Slice(s, 1, Len(p)) = p
EndsWith(s, p) == Len(s) >= Len(p) /\ Slice(s, Len(s) - Len(p) + 1, Len(s)) = p

IsDigit(c) == \E i \in 1..10 : CharAt(Digits, i) = c

DigitValue(c) == (CHOOSE i \in 1..10 : CharAt(Digits, i) = c) - 1

RECURSIVE ParseInt(_)
\* int(s), s a run of digits
ParseInt(s) ==
    IF s = "" THEN 0
    ELSE ParseInt(Slice(s, 1, Len(s) - 1)) * 10 + DigitValue(CharAt(s, Len(s)))

RECURSIVE DecimalStr(_)
\* str(n) for n >= 0
DecimalStr(n) ==
    IF n < 10 THEN Char(Digits, n + 1)
    ELSE DecimalStr(n \div 10) \o Char(Digits, (n % 10) + 1)

\* [w for w in re.split(r'[\s|]+', s) if len(w) > 3], as a set: the maximal
\* runs of characters other than white space and '|' that are longer than 3
LongWords(s) ==
    LET IsSep(c) == IsSpace(c) \/ c = "|"
        starts == {i \in 1..Len(s) : ~IsSep(Char(s, i)) /\ (i = 1 \/ IsSep(Char(s, i - 1)))}
        EndOf(i) == LET N == {k \in i..Len(s) : IsSep(Char(s, k))}
                    IN  IF N = {} THEN Len(s)
                        ELSE (CHOOSE k \in N : \A l \in N : k <= l) - 1
    IN  {w \in {Slice(s, i, EndOf(i)) : i \in starts} : Len(w) > 3}

(***************************************************************************)
(* is_published_state                                                      *)
(***************************************************************************)
\* mutant: the state is compared without .lower()
is_published_state_NoLower(ws) == Strip(ws) \in {"active", "published", ""}

is_published_state(ws) == Strip(Lower(ws)) \in {"active", "published", ""}

(***************************************************************************)
(* Inputs of the publish predicate: a word in some letter case, with       *)
(* whitespace around it.                                                   *)
(***************************************************************************)
MaxPad == 2

RECURSIVE PadsOfLen(_)
PadsOfLen(n) ==
    IF n = 0 THEN {""}
    ELSE {c \o p : c \in {" ", "\t", "\n"}, p \in PadsOfLen(n - 1)}

Pads == UNION {PadsOfLen(n) : n \in 0..MaxPad}

PublishedWords ==
    {"active", "Active", "ACTIVE", "aCtIvE",
     "published", "Published", "PUBLISHED", ""}

UnpublishedWords ==
    {"unpublished", "Unpublished", "UNPUBLISHED",
     "draft", "Draft", "DRAFT", "dRaFt"}

\* other texts: a Canvas state outside the two lists, and near misses
OtherWords == {"deleted", "activ", "act ive", "actived", "publish", "un published"}

PaddedVariants(words) == {l \o w \o r : l \in Pads, r \in Pads, w \in words}

StateInputs == PaddedVariants(PublishedWords \cup UnpublishedWords \cup OtherWords)

InitPub ==
    /\ pc = "call"
    /\ workflow_state \in StateInputs
    /\ pub_result = "?"
    /\ IdleXml /\ IdleRes /\ IdleRead /\ IdleMod /\ IdleCmp /\ IdleCall

\* one call  is_published_state(workflow_state)
IsPublishedStateCall ==
    /\ pc = "call"
    /\ pub_result' = is_published_state(workflow_state)
    /\ pc' = "done"
    /\ UNCHANGED <<workflow_state, vars_xml, vars_res, archive, vars_wiki, objectives, vars_mod,
                   vars_cmp, vars_call>>

NextPub == IsPublishedStateCall

SpecPub == InitPub /\ [][NextPub]_vars

(***************************************************************************)
(* C1  is_published_state returns true exactly for the strings that are    *)
(* "active", "published" or "" in some letter case with whitespace around  *)
(* them, and false for every other string, "unpublished" and "draft" in    *)
(* any case/whitespace variant among them.                                 *)
(***************************************************************************)
PublishedVariants == PaddedVariants(PublishedWords)

UnpublishedVariants == PaddedVariants(UnpublishedWords)

C1_PublishPredicate ==
    pc = "done" =>
        /\ pub_result = (workflow_state \in PublishedVariants)
        /\ workflow_state \in UnpublishedVariants => pub_result = FALSE

C1_Witness ==
    /\ pc = "done"
    /\ workflow_state = " \tPUBLISHED\n"
    /\ pub_result = TRUE

(***************************************************************************)
(* Markup text as tokens.  An opening or closing tag is a token with an    *)
(* empty value; an element <tag>value</tag> and an attribute name="value"  *)
(* are tokens with their value.  No element of the model is empty          *)
(* (the patterns of the source ask for at least one character).            *)
(***************************************************************************)
Tok(tag, val) == [tag |-> tag, val |-> val]

\* an element, or nothing when the export leaves it out
Opt(tag, val) == IF val = None THEN <<>> ELSE <<Tok(tag, val)>>

RECURSIVE Concat(_)
\* the concatenation of a sequence of sequences
Concat(ss) == IF ss = <<>> THEN <<>> ELSE Head(ss) \o Concat(Tail(ss))

\* the k-th smallest element of a finite set of integers
KthSmallest(S, k) == CHOOSE i \in S : Cardinality({j \in S : j < i}) = k - 1

\* re.split(<pattern of the opening tag>, text)[1:] : the text after each
\* opening tag up to the next such tag (or the end of the text)
re_split_tail(doc, tag) ==
    LET M == {i \in 1..Len(doc) : doc[i].tag = tag}
        End(i) == IF \E j \in M : j > i
                  THEN (CHOOSE j \in M : j > i /\ \A l \in M : l > i => j <= l) - 1
                  ELSE Len(doc)
    IN  [k \in 1..Cardinality(M) |->
            SubSeq(doc, KthSmallest(M, k) + 1, End(KthSmallest(M, k)))]

\* re.search(r'<tag>(.+?)</tag>', block, re.DOTALL) (and the attribute
\* patterns  tag=["']([^"']+)["'] ): group 1 of the first match, or None
re_search(block, tag) ==
    IF \E i \in 1..Len(block) : block[i].tag = tag
    THEN block[CHOOSE i \in 1..Len(block) :
                  /\ block[i].tag = tag
                  /\ \A j \in 1..(i - 1) : block[j].tag # tag].val
    ELSE None

(***************************************************************************)
(* The export format: course_settings/module_meta.xml and imsmanifest.xml  *)
(***************************************************************************)
\* <item identifier=...> content_type workflow_state title identifierref </item>
SerializeItem(it) ==
    <<Tok("item", "")>> \o Opt("content_type", it.ctype)
        \o Opt("workflow_state", it.state) \o Opt("title", it.title)
        \o Opt("identifierref", it.ref) \o <<Tok("/item", "")>>

\* <module identifier=...> title workflow_state position <items>...</items> </module>
SerializeModule(m) ==
    <<Tok("module", "")>> \o Opt("title", m.title)
        \o Opt("workflow_state", m.state) \o Opt("position", m.position)
        \o <<Tok("items", "")>>
        \o Concat([k \in 1..Len(m.items) |-> SerializeItem(m.items[k])])
        \o <<Tok("/items", ""), Tok("/module", "")>>

\* <modules ...> module* </modules>
SerializeModuleMeta(ms) ==
    <<Tok("modules", "")>>
        \o Concat([k \in 1..Len(ms) |-> SerializeModule(ms[k])])
        \o <<Tok("/modules", "")>>

\* <resource identifier=... type=... [href=...]> [<file href=.../>] </resource>
SerializeResource(r) ==
    <<Tok("resource", ""), Tok("identifier", r.id), Tok("type", "webcontent")>>
        \o Opt("href", r.href)
        \o (IF r.file = None THEN <<>> ELSE <<Tok("file", ""), Tok("href", r.file)>>)
        \o <<Tok("/resource", "")>>

\* <manifest identifier=...> <resources> resource* </resources> </manifest>
SerializeManifest(rs) ==
    <<Tok("manifest", ""), Tok("identifier", "g0"), Tok("resources", "")>>
        \o Concat([k \in 1..Len(rs) |-> SerializeResource(rs[k])])
        \o <<Tok("/resources", ""), Tok("/manifest", "")>>

(***************************************************************************)
(* Python dict                                                             *)
(***************************************************************************)
\* d[k] = v
DictSet(d, k, v) == [x \in (DOMAIN d) \cup {k} |-> IF x = k THEN v ELSE d[x]]

(***************************************************************************)
(* build_published_file_set                                                *)
(***************************************************************************)
\* ref_m / state_m of one item block: the reference id, and the state
\* ('active' when the block holds no workflow_state element)
BlockRef(block) ==
    LET ref_m == re_search(block, "identifierref")
    IN  IF ref_m = None THEN None ELSE Strip(ref_m)

BlockState(block) ==
    LET state_m == re_search(block, "workflow_state")
    IN  IF state_m = None THEN "active" ELSE Strip(state_m)

\* mutant: the last occurrence of a reference id always wins
ItemStatesStep_LastWins(st, block) ==
    IF BlockRef(block) # None
    THEN DictSet(st, BlockRef(block), BlockState(block))
    ELSE st

\* Step 1, one iteration of  for block in item_blocks
ItemStatesStep(st, block) ==
    IF BlockRef(block) # None
    THEN IF BlockRef(block) \notin DOMAIN st \/ is_published_state(BlockState(block))
         THEN DictSet(st, BlockRef(block), BlockState(block))
         ELSE st
    ELSE st

RECURSIVE ItemStatesLoop(_, _)
ItemStatesLoop(st, blocks) ==
    IF blocks = <<>> THEN st
    ELSE ItemStatesLoop(ItemStatesStep(st, Head(blocks)), Tail(blocks))

\* Step 2, one iteration of  for block in resource_blocks
IdToHrefStep(ih, block) ==
    LET id_m   == re_search(block, "identifier")
        href_m == re_search(block, "href")
    IN  IF id_m # None /\ href_m # None THEN DictSet(ih, id_m, href_m) ELSE ih

RECURSIVE IdToHrefLoop(_, _)
IdToHrefLoop(ih, blocks) ==
    IF blocks = <<>> THEN ih
    ELSE IdToHrefLoop(IdToHrefStep(ih, Head(blocks)), Tail(blocks))

\* mutant: the state of the item is not looked at
PublishedHrefSet_AnyState(st, ih) ==
    {ih[ref] : ref \in {r \in DOMAIN st : r \in DOMAIN ih}}

\* Step 3
PublishedHrefSet(st, ih) ==
    {ih[ref] : ref \in {r \in DOMAIN st : is_published_state(st[r]) /\ r \in DOMAIN ih}}

build_published_file_set(module_meta_xml, manifest_xml) ==
    LET st == ItemStatesLoop(<<>>, re_split_tail(module_meta_xml, "item"))
        ih == IdToHrefLoop(<<>>, re_split_tail(manifest_xml, "resource"))
    IN  [published_hrefs |-> PublishedHrefSet(st, ih),
         item_states     |-> st,
         id_to_href      |-> ih]

(***************************************************************************)
(* Inputs of the resolver                                                  *)
(***************************************************************************)
MaxMetaItems == 2
MaxResources == 2

RECURSIVE SeqsOfLen(_, _)
SeqsOfLen(S, n) ==
    IF n = 0 THEN {<<>>}
    ELSE {<<x>> \o t : x \in S, t \in SeqsOfLen(S, n - 1)}

\* the sequences over S of length at most n
SeqsUpTo(S, n) == UNION {SeqsOfLen(S, k) : k \in 0..n}

Item(ref, state) ==
    [ctype |-> "WikiPage", state |-> state, title |-> "Page", ref |-> ref]

ResolveItems ==
    {Item("g1", "active"), Item("g1", "unpublished"), Item("g1", None),
     Item(" g2\n", "Unpublished"), Item(None, "active")}

Module(title, state, position, items) ==
    [title |-> title, state |-> state, position |-> position, items |-> items]

\* the items in one module, or cut into two modules; the second module's
\* own state is st2
ResolveModuleLists ==
    {<<Module("Module 1", "active", "1", its)>> : its \in SeqsUpTo(ResolveItems, MaxMetaItems)}
    \cup
    UNION {{<<Module("Module 1", "active", "1", SubSeq(its, 1, cut)),
              Module("Module 2", st2, "2", SubSeq(its, cut + 1, Len(its)))>> :
               cut \in 0..Len(its), st2 \in {"unpublished"}} :
           its \in SeqsUpTo(ResolveItems, MaxMetaItems)}

\* '' (no module_meta.xml member), or the text of an exported one
ResolveMetas == {<<>>} \cup {SerializeModuleMeta(ms) : ms \in ResolveModuleLists}

Resource(id, href, file) == [id |-> id, href |-> href, file |-> file]

PageA == "wiki_content/a.html"
PageB == "wiki_content/b.html"

\* the last two: an href on a <file> child only, and no href at all
ResolveResources ==
    {Resource("g1", PageA, PageA), Resource("g1", PageB, PageB),
     Resource("g2", None, PageB), Resource("g2", None, None)}

ResolveManifests ==
    {<<>>} \cup {SerializeManifest(rs) : rs \in SeqsUpTo(ResolveResources, MaxResources)}

InitResolve ==
    /\ pc = "call"
    /\ module_meta \in ResolveMetas
    /\ manifest \in ResolveManifests
    /\ IdlePub /\ IdleRes /\ IdleRead /\ IdleMod /\ IdleCmp /\ IdleCall

\* published_hrefs, item_states, id_to_href = build_published_file_set(...)
BuildPublishedFileSetCall ==
    /\ pc = "call"
    /\ LET r == build_published_file_set(module_meta, manifest)
       IN  /\ published_hrefs' = r.published_hrefs
           /\ item_states' = r.item_states
           /\ id_to_href' = r.id_to_href
    /\ pc' = "done"
    /\ UNCHANGED <<vars_pub, vars_xml, archive, vars_wiki, objectives, vars_mod, vars_cmp,
                   vars_call>>

NextResolve == BuildPublishedFileSetCall

SpecResolve == InitResolve /\ [][NextResolve]_vars

(***************************************************************************)
(* C2  most-permissive-wins: for every reference id of the module items,   *)
(* whatever the order of its occurrences, the state resolved in            *)
(* item_states passes the publish predicate iff the state of at least one  *)
(* occurrence passes it.                                                   *)
(***************************************************************************)
\* the item blocks, among blocks, in which reference id ref occurs
Occurrences(blocks, ref) == {k \in 1..Len(blocks) : BlockRef(blocks[k]) = ref}

OccurringRefs(blocks) == {BlockRef(blocks[k]) : k \in 1..Len(blocks)} \ {None}

SomeOccurrencePublished(blocks, ref) ==
    \E k \in Occurrences(blocks, ref) : is_published_state(BlockState(blocks[k]))

C2_MostPermissiveWins ==
    pc = "done" =>
        LET blocks == re_split_tail(module_meta, "item")
        IN  /\ DOMAIN item_states = OccurringRefs(blocks)
            /\ \A ref \in DOMAIN item_states :
                  is_published_state(item_states[ref])
                      <=> SomeOccurrencePublished(blocks, ref)

\* a published occurrence is followed by an unpublished one of the same id
C2_Witness ==
    /\ pc = "done"
    /\ LET blocks == re_split_tail(module_meta, "item")
       IN  \E k1, k2 \in Occurrences(blocks, "g1") :
              /\ k1 < k2
              /\ is_published_state(BlockState(blocks[k1]))
              /\ ~is_published_state(BlockState(blocks[k2]))
    /\ is_published_state(item_states["g1"])

(***************************************************************************)
(* C3  an href is in published_hrefs iff some reference id whose resolved  *)
(* state passes the publish predicate has a manifest entry (an id with an  *)
(* href) that maps to it.                                                  *)
(***************************************************************************)
\* the resource blocks, among blocks, that give id an href
EntriesOf(blocks, id) ==
    {k \in 1..Len(blocks) :
        /\ re_search(blocks[k], "identifier") = id
        /\ re_search(blocks[k], "href") # None}

\* the href the manifest maps id to: that of its last entry
ManifestHref(blocks, id) ==
    LET E == EntriesOf(blocks, id)
    IN  re_search(blocks[CHOOSE k \in E : \A j \in E : j <= k], "href")

C3_PublishedHrefs ==
    pc = "done" =>
        LET items     == re_split_tail(module_meta, "item")
            resources == re_split_tail(manifest, "resource")
        IN  published_hrefs =
                {ManifestHref(resources, ref) :
                    ref \in {r \in OccurringRefs(items) :
                                /\ SomeOccurrencePublished(items, r)
                                /\ EntriesOf(resources, r) # {}}}

\* g1 is published and mapped, g2 is mapped and unpublished
C3_Witness ==
    /\ pc = "done"
    /\ published_hrefs = {PageA}
    /\ "g2" \in DOMAIN item_states /\ ~is_published_state(item_states["g2"])
    /\ "g2" \in DOMAIN id_to_href /\ id_to_href["g2"] = PageB
    /\ "g1" \in DOMAIN item_states /\ "g1" \in DOMAIN id_to_href


(***************************************************************************)
(* strip_html                                                              *)
(***************************************************************************)
\* the smaller of two indices, 0 meaning "not found"
FirstFound(i, j) == IF i = 0 THEN j ELSE IF j = 0 THEN i ELSE IF i < j THEN i ELSE j

RECURSIVE RemoveScriptStyle(_)
\* re.sub(r'<(script|style)[^>]*>.*?</(script|style)>', '', s, flags=re.DOTALL)
RemoveScriptStyle(s) ==
    LET i  == FirstFound(IndexOf(s, "<script", 1), IndexOf(s, "<style", 1))
        n  == IF i # 0 /\ Slice(s, i, i + 6) = "<script" THEN 7 ELSE 6
        g  == IF i = 0 THEN 0 ELSE IndexOf(s, ">", i + n)
        c1 == IF g = 0 THEN 0 ELSE IndexOf(s, "</script>", g + 1)
        c2 == IF g = 0 THEN 0 ELSE IndexOf(s, "</style>", g + 1)
        c  == FirstFound(c1, c2)
        e  == IF c = c1 THEN c + 8 ELSE c + 7
    IN  IF c = 0 THEN s
        ELSE Slice(s, 1, i - 1) \o RemoveScriptStyle(Slice(s, e + 1, Len(s)))

RECURSIVE ReplaceTags(_)
\* re.sub(r'<[^>]+>', ' ', s)
ReplaceTags(s) ==
    LET i == IndexOf(s, "<", 1)
        g == IF i = 0 THEN 0 ELSE IndexOf(s, ">", i + 1)
    IN  IF g = 0 THEN s
        ELSE IF g = i + 1
             THEN Slice(s, 1, g) \o ReplaceTags(Slice(s, g + 1, Len(s)))
             ELSE Slice(s, 1, i - 1) \o " " \o ReplaceTags(Slice(s, g + 1, Len(s)))

\* the entities decoded, in this order
Entities ==
    <<<<"&nbsp;", " ">>, <<"&amp;", "&">>, <<"&lt;", "<">>,
      <<"&gt;", ">">>, <<"&quot;", "\"">>, <<"&#39;", "'">> >>

RECURSIVE DecodeEntities(_, _)
\* for entity, char in [...]: text = text.replace(entity, char)
DecodeEntities(s, k) ==
    IF k > Len(Entities) THEN s
    ELSE DecodeEntities(Replace(s, Entities[k][1], Entities[k][2]), k + 1)

RECURSIVE CollapseSpaces(_)
\* re.sub(r'\s+', ' ', s)
CollapseSpaces(s) ==
    LET W == {i \in 1..Len(s) : IsSpace(Char(s, i))}
        i == IF W = {} THEN 0 ELSE CHOOSE x \in W : \A y \in W : x <= y
    IN  IF i = 0 THEN s
        ELSE Slice(s, 1, i - 1) \o " " \o CollapseSpaces(LStrip(Slice(s, i, Len(s))))

strip_html(html_content) ==
    Strip(CollapseSpaces(DecodeEntities(ReplaceTags(RemoveScriptStyle(html_content)), 1)))

(***************************************************************************)
(* is_media_page                                                           *)
(***************************************************************************)
MEDIA_KEYWORDS ==
    {"video-", "podcast-", "webpage-", "netflix-", "movie-",
     "trigger-warning", "youtube", "playposit", "voicethread",
     "zoom-", "canvas-student", "canvas-overview", "recommended-browsers",
     "technical-", "chrome-", "navigate-canvas", "honorlock",
     "respondus", "turnitin", "how-to-", "update-your", "global-navigation",
     "accessibility-", "fiu-resources", "note-for-support",
     "faculty-guided", "proctored", "sample-rubric", "spot-survey",
     "working-in-teams", "getting-started-with-group", "embedding-",
     "directions-on-submitting", "how-do-i-", "student-guide",
     "canvas-student-guide", "submitting-an-assignment", "submitting-a-",
     "recording-a-", "uploading-a-", "downloading-", "installing-"}

is_media_page(page_name) ==
    \E k \in MEDIA_KEYWORDS : Contains(Lower(page_name), k)

(***************************************************************************)
(* Python dict with its insertion order: a sequence of <<key, value>>      *)
(***************************************************************************)
Keys(d) == {d[i][1] : i \in 1..Len(d)}

\* d[k] = v : a new key goes last, a key already there keeps its place
Put(d, k, v) ==
    IF k \in Keys(d)
    THEN [i \in 1..Len(d) |-> IF d[i][1] = k THEN <<k, v>> ELSE d[i]]
    ELSE Append(d, <<k, v>>)

Range(q) == {q[i] : i \in 1..Len(q)}

(***************************************************************************)
(* read_imscc: the settings files, publish resolution and the wiki pages   *)
(***************************************************************************)
\* the content of a member that z.read() cannot read
ReadError == "~ReadError"

ModuleMetaPath == "course_settings/module_meta.xml"
ManifestPath == "imsmanifest.xml"

\* data[key] of a settings file: its text if the member is in the archive
SettingsText(arch, path) ==
    IF path \in Range(arch.names) THEN arch.body[path] ELSE <<>>

\* wiki_files
WikiFiles(files) ==
    SelectSeq(files, LAMBDA f : StartsWith(f, "wiki_content/") /\ EndsWith(f, ".html"))

\* page_name
PageName(page_path) == Replace(Replace(page_path, "wiki_content/", ""), ".html", "")

\* mutant: no fallback when the module metadata gave no item state
WikiPublished_NoFallback(page_path, hrefs, states) == page_path \in hrefs

\* published: in published_hrefs, or nothing is known of any item
WikiPublished(page_path, hrefs, states) ==
    IF page_path \in hrefs THEN TRUE
    ELSE IF DOMAIN states = {} THEN TRUE
    ELSE FALSE

\* the page's plain text stored in wiki_full
StorePage(d, page_name, raw) ==
    IF raw = ReadError
    THEN [d EXCEPT !.wiki_full = Put(@, page_name, "[could not read]")]
    ELSE LET clean == Strip(strip_html(raw))
         IN  IF clean # "" THEN [d EXCEPT !.wiki_full = Put(@, page_name, clean)] ELSE d

\* mutant: an unpublished page is listed and then read like a published one
WikiPageStep_NoContinue(d, page_path, published, raw) ==
    LET page_name == PageName(page_path)
        d1 == IF published THEN d
              ELSE [d EXCEPT !.wiki_unpub = @ + 1,
                             !.wiki_unpublished = Append(@, page_name)]
        d2 == [d1 EXCEPT !.wiki_pub = @ + 1]
    IN  IF is_media_page(page_name)
        THEN [d2 EXCEPT !.wiki_titles = Append(@, page_name)]
        ELSE StorePage(d2, page_name, raw)

\* mutant: a media page is listed and its text stored as well
WikiPageStep_MediaStored(d, page_path, published, raw) ==
    LET page_name == PageName(page_path)
    IN  IF ~published
        THEN [d EXCEPT !.wiki_unpub = @ + 1,
                       !.wiki_unpublished = Append(@, page_name)]
        ELSE LET d2 == [d EXCEPT !.wiki_pub = @ + 1]
             IN  IF is_media_page(page_name)
                 THEN StorePage([d2 EXCEPT !.wiki_titles = Append(@, page_name)],
                                page_name, raw)
                 ELSE StorePage(d2, page_name, raw)

\* mutant: a published page is counted only when something of it is kept
WikiPageStep_CountKept(d, page_path, published, raw) ==
    LET page_name == PageName(page_path)
    IN  IF ~published
        THEN [d EXCEPT !.wiki_unpub = @ + 1,
                       !.wiki_unpublished = Append(@, page_name)]
        ELSE IF is_media_page(page_name)
        THEN [d EXCEPT !.wiki_pub = @ + 1, !.wiki_titles = Append(@, page_name)]
        ELSE LET d2 == StorePage(d, page_name, raw)
             IN  IF d2 = d THEN d ELSE [d2 EXCEPT !.wiki_pub = @ + 1]

\* one iteration of  for page_path in wiki_files
WikiPageStep(d, page_path, published, raw) ==
    LET page_name == PageName(page_path)
    IN  IF ~published
        THEN [d EXCEPT !.wiki_unpub = @ + 1,
                       !.wiki_unpublished = Append(@, page_name)]
        ELSE LET d2 == [d EXCEPT !.wiki_pub = @ + 1]
             IN  IF is_media_page(page_name)
                 THEN [d2 EXCEPT !.wiki_titles = Append(@, page_name)]
                 ELSE StorePage(d2, page_name, raw)

\* the settings files are read and the published file set is built
ReadSettings ==
    /\ pc = "open"
    /\ module_meta' = SettingsText(archive, ModuleMetaPath)
    /\ manifest' = SettingsText(archive, ManifestPath)
    /\ LET r == build_published_file_set(module_meta', manifest')
       IN  /\ published_hrefs' = r.published_hrefs
           /\ item_states' = r.item_states
           /\ id_to_href' = r.id_to_href
    /\ wiki_i' = 1
    /\ pc' = "wiki"
    /\ UNCHANGED <<vars_pub, archive, wiki_full, wiki_titles, wiki_unpublished,
                   wiki_pub, wiki_unpub, objectives, vars_mod, vars_cmp, vars_call>>

\* the next wiki page is put in its bucket
WikiPage ==
    /\ pc = "wiki"
    /\ wiki_i <= Len(WikiFiles(archive.names))
    /\ LET page_path == WikiFiles(archive.names)[wiki_i]
           d == WikiPageStep([wiki_full        |-> wiki_full,
                              wiki_titles      |-> wiki_titles,
                              wiki_unpublished |-> wiki_unpublished,
                              wiki_pub         |-> wiki_pub,
                              wiki_unpub       |-> wiki_unpub],
                             page_path,
                             WikiPublished(page_path, published_hrefs, item_states),
                             archive.body[page_path])
       IN  /\ wiki_full' = d.wiki_full
           /\ wiki_titles' = d.wiki_titles
           /\ wiki_unpublished' = d.wiki_unpublished
           /\ wiki_pub' = d.wiki_pub
           /\ wiki_unpub' = d.wiki_unpub
    /\ wiki_i' = wiki_i + 1
    /\ UNCHANGED <<pc, vars_pub, vars_xml, vars_res, archive, objectives, vars_mod, vars_cmp,
                   vars_call>>

\* the loop over the wiki pages ends
WikiDone ==
    /\ pc = "wiki"
    /\ wiki_i > Len(WikiFiles(archive.names))
    /\ pc' = "read"
    /\ UNCHANGED <<vars_pub, vars_xml, vars_res, archive, vars_wiki, objectives, vars_mod,
                   vars_cmp, vars_call>>


(***************************************************************************)
(* Regular expressions (module re): a pattern is a tree of the nodes       *)
(* below; RxEnds gives the ways a pattern matches at a position, in the    *)
(* order in which the backtracking matcher tries them, so that the first   *)
(* one is the match re reports.  A way is the position after the match     *)
(* and the span of group 1.  With re.IGNORECASE the patterns (written in   *)
(* lower case) are matched against the lowercased text.                    *)
(***************************************************************************)
\* a literal text
RxLit(t) == [k |-> "lit", t |-> t]

\* a character class repeated min..max times, greedy: the characters of
\* set, or with neg the characters not in set
RxCls(set, neg, min, max) == [k |-> "cls", set |-> set, neg |-> neg, min |-> min, max |-> max]

\* xs[1] xs[2] ...
RxSeq(xs) == [k |-> "seq", xs |-> xs]

\* xs[1] | xs[2] | ...
RxAlt(xs) == [k |-> "alt", xs |-> xs]

\* (?:x)?
RxOpt(x) == RxAlt(<<x, RxSeq(<<>>)>>)

\* (x) : group 1
RxGrp(x) == [k |-> "grp", x |-> x]

\* (?:x){min,max}, greedy
RxRep(x, min, max) == [k |-> "rep", x |-> x, min |-> min, max |-> max]

\* ^ with re.MULTILINE
RxBol == [k |-> "bol"]

\* \b
RxWordB == [k |-> "wordb"]

\* no upper limit of a repetition (longer than any text of the model)
RxInf == 100000

SpaceChars == {" ", "\t", "\n", "\r"}
DigitChars == {Char(Digits, i) : i \in 1..10}
WordChars == Letters \cup UpperSet \cup DigitChars \cup {"_"}

\* \s+  \s*  \d*  .
RxSpaces1 == RxCls(SpaceChars, FALSE, 1, RxInf)
RxSpaces0 == RxCls(SpaceChars, FALSE, 0, RxInf)
RxDigits0 == RxCls(DigitChars, FALSE, 0, RxInf)
RxDot == RxCls({"\n"}, TRUE, 1, 1)

\* a word as a sequence of literals and \s+ :  w1\s+w2\s+...
RxWords(ws) ==
    RxSeq([i \in 1..(2 * Len(ws) - 1) |->
              IF i % 2 = 1 THEN RxLit(ws[(i + 1) \div 2]) ELSE RxSpaces1])

\* the number of characters from pos on that are in the class, at most max
RxRun(s, pos, node) ==
    LET last == IF pos + node.max - 1 > Len(s) THEN Len(s) ELSE pos + node.max - 1
        N == {k \in pos..last : (Char(s, k) \in node.set) = node.neg}
    IN  IF N = {} THEN last - pos + 1
        ELSE (CHOOSE k \in N : \A l \in N : k <= l) - pos

\* \b at pos: one side is a word character, the other is not
RxAtWordB(s, pos) ==
    LET before == pos > 1 /\ pos - 1 <= Len(s) /\ Char(s, pos - 1) \in WordChars
        after  == pos >= 1 /\ pos <= Len(s) /\ Char(s, pos) \in WordChars
    IN  before # after

RECURSIVE RxEnds(_, _, _)
RECURSIVE RxEndsAll(_, _, _)
RECURSIVE RxSeqEnds(_, _, _, _)
RECURSIVE RxAltEnds(_, _, _, _)
RECURSIVE RxRepEnds(_, _, _, _)

\* the ways of node from each way of sts, in order
RxEndsAll(node, s, sts) ==
    IF sts = <<>> THEN <<>>
    ELSE IF Len(sts) = 1 THEN RxEnds(node, s, sts[1])
    ELSE RxEndsAll(node, s, SubSeq(sts, 1, Len(sts) \div 2))
            \o RxEndsAll(node, s, SubSeq(sts, Len(sts) \div 2 + 1, Len(sts)))

RxSeqEnds(xs, i, s, sts) ==
    IF i > Len(xs) \/ sts = <<>> THEN sts
    ELSE RxSeqEnds(xs, i + 1, s, RxEndsAll(xs[i], s, sts))

RxAltEnds(xs, i, s, st) ==
    IF i > Len(xs) THEN <<>>
    ELSE RxEnds(xs[i], s, st) \o RxAltEnds(xs, i + 1, s, st)

\* count repetitions are done: one more first (if any that consumes text),
\* then stopping here
RxRepEnds(node, s, st, count) ==
    LET more == IF count < node.max
                THEN SelectSeq(RxEnds(node.x, s, st), LAMBDA r : r.pos > st.pos)
                ELSE <<>>
        RECURSIVE Each(_)
        Each(rs) == IF rs = <<>> THEN <<>>
                    ELSE IF Len(rs) = 1 THEN RxRepEnds(node, s, rs[1], count + 1)
                    ELSE Each(SubSeq(rs, 1, Len(rs) \div 2))
                            \o Each(SubSeq(rs, Len(rs) \div 2 + 1, Len(rs)))
    IN  Each(more) \o (IF count >= node.min THEN <<st>> ELSE <<>>)

RxEnds(node, s, st) ==
    CASE node.k = "lit" ->
            IF Slice(s, st.pos, st.pos + Len(node.t) - 1) = node.t
            THEN <<[st EXCEPT !.pos = @ + Len(node.t)]>>
            ELSE <<>>
      [] node.k = "cls" ->
            LET r == RxRun(s, st.pos, node)
            IN  IF r < node.min THEN <<>>
                ELSE [i \in 1..(r - node.min + 1) |-> [st EXCEPT !.pos = @ + r - i + 1]]
      [] node.k = "seq" -> RxSeqEnds(node.xs, 1, s, <<st>>)
      [] node.k = "alt" -> RxAltEnds(node.xs, 1, s, st)
      [] node.k = "grp" ->
            LET rs == RxEnds(node.x, s, st)
            IN  [i \in 1..Len(rs) |-> [pos |-> rs[i].pos, gs |-> st.pos, ge |-> rs[i].pos - 1]]
      [] node.k = "rep" -> RxRepEnds(node, s, st, 0)
      [] node.k = "bol" ->
            IF st.pos = 1 \/ Char(s, st.pos - 1) = "\n" THEN <<st>> ELSE <<>>
      [] node.k = "wordb" -> IF RxAtWordB(s, st.pos) THEN <<st>> ELSE <<>>

\* the match at position pos, if any: <<way>> or <<>>
RxMatchAt(node, s, pos) ==
    LET rs == RxEnds(node, s, [pos |-> pos, gs |-> 0, ge |-> 0])
    IN  IF rs = <<>> THEN <<>> ELSE <<[start |-> pos, end |-> rs[1].pos - 1,
                                       gs |-> rs[1].gs, ge |-> rs[1].ge]>>

\* re.search(pattern, s) is not None
re_matches(node, s) == \E pos \in 1..(Len(s) + 1) : RxMatchAt(node, s, pos) # <<>>

RECURSIVE RxWalk(_, _, _, _)
\* the scan of the positions from..to, left to right: acc.found holds the
\* matches so far and acc.pos the position the scan goes on from, no match
\* starting before the end of the one before; ms[p] is the match at p
RxWalk(ms, acc, from, to) ==
    IF from > to THEN acc
    ELSE IF from = to
    THEN IF from < acc.pos THEN acc
         ELSE IF ms[from] = <<>> THEN acc
         ELSE LET m == ms[from][1]
              IN  [pos   |-> IF m.end < m.start THEN from + 1 ELSE m.end + 1,
                   found |-> Append(acc.found, m)]
    ELSE LET mid  == (from + to) \div 2
             left == RxWalk(ms, acc, from, mid)
         IN  IF left.pos > to THEN left ELSE RxWalk(ms, left, mid + 1, to)

\* re.finditer(pattern, s), from position pos on: the matches, left to right
RxFindIter(node, s, pos) ==
    RxWalk([p \in pos..(Len(s) + 1) |-> RxMatchAt(node, s, p)],
           [pos |-> pos, found |-> <<>>], pos, Len(s) + 1).found

(***************************************************************************)
(* detect_blooms_level                                                     *)
(***************************************************************************)
\* BLOOMS_VERBS, in the order of the dict
BLOOMS_VERBS ==
    << [level |-> "Remember",
        verbs |-> <<"define", "list", "recall", "identify", "name", "label", "match",
                    "memorize", "recognize", "repeat", "reproduce", "state">>],
       [level |-> "Understand",
        verbs |-> <<"explain", "summarize", "classify", "compare", "discuss", "interpret",
                    "paraphrase", "predict", "report", "restate", "review", "translate">>],
       [level |-> "Apply",
        verbs |-> <<"use", "demonstrate", "solve", "implement", "execute", "apply",
                    "calculate", "complete", "illustrate", "modify", "operate", "show">>],
       [level |-> "Analyze",
        verbs |-> <<"differentiate", "examine", "organize", "attribute", "deconstruct",
                    "analyze", "contrast", "distinguish", "inspect", "question">>],
       [level |-> "Evaluate",
        verbs |-> <<"judge", "critique", "justify", "argue", "assess", "appraise", "defend",
                    "evaluate", "prioritize", "rank", "recommend", "support">>],
       [level |-> "Create",
        verbs |-> <<"design", "construct", "develop", "formulate", "produce", "assemble",
                    "build", "compose", "create", "devise", "generate", "plan", "write">>] >>

level_order == <<"Remember", "Understand", "Apply", "Analyze", "Evaluate", "Create">>

\* level_order.index(lvl)
LevelIndex(lvl) == CHOOSE i \in 1..Len(level_order) : level_order[i] = lvl

\* re.search(r'\b' + v + r'\b', s): v occurs with a word boundary on either
\* side
VerbOccurs(v, s) ==
    \E pos \in 1..(Len(s) - Len(v) + 1) :
        /\ SubSeq(s, pos, pos + Len(v) - 1) = v
        /\ RxAtWordB(s, pos)
        /\ RxAtWordB(s, pos + Len(v))

\* mutant: the verb is searched as a substring, not as a whole word
detect_blooms_level_Substring(text) ==
    LET low   == Lower(text)
        found == SelectSeq(BLOOMS_VERBS,
                     LAMBDA e : \E i \in 1..Len(e.verbs) : Contains(low, e.verbs[i]))
        top   == CHOOSE i \in 1..Len(found) :
                     \A j \in 1..Len(found) :
                         LevelIndex(found[j].level) <= LevelIndex(found[i].level)
    IN  IF found = <<>> THEN "Unclear" ELSE found[top].level

detect_blooms_level(text) ==
    LET low   == Lower(text)
        found == SelectSeq(BLOOMS_VERBS,
                     LAMBDA e : \E i \in 1..Len(e.verbs) : VerbOccurs(e.verbs[i], low))
        top   == CHOOSE i \in 1..Len(found) :
                     \A j \in 1..Len(found) :
                         LevelIndex(found[j].level) <= LevelIndex(found[i].level)
    IN  IF found = <<>> THEN "Unclear" ELSE found[top].level

(***************************************************************************)
(* _classify_obj_type                                                      *)
(***************************************************************************)
\* [-\s]?
RxDashOrSpace == RxCls({"-"} \cup SpaceChars, FALSE, 0, 1)

\* \bclo[-\s]?\d*\b|course.level.objective|course.learning.objective
CloLabelPattern ==
    RxAlt(<< RxSeq(<<RxWordB, RxLit("clo"), RxDashOrSpace, RxDigits0, RxWordB>>),
             RxSeq(<<RxLit("course"), RxDot, RxLit("level"), RxDot, RxLit("objective")>>),
             RxSeq(<<RxLit("course"), RxDot, RxLit("learning"), RxDot, RxLit("objective")>>) >>)

\* \bmlo[-\s]?\d*\b|module.level.objective|module.learning.objective|module.objective
MloLabelPattern ==
    RxAlt(<< RxSeq(<<RxWordB, RxLit("mlo"), RxDashOrSpace, RxDigits0, RxWordB>>),
             RxSeq(<<RxLit("module"), RxDot, RxLit("level"), RxDot, RxLit("objective")>>),
             RxSeq(<<RxLit("module"), RxDot, RxLit("learning"), RxDot, RxLit("objective")>>),
             RxSeq(<<RxLit("module"), RxDot, RxLit("objective")>>) >>)

\* by\s+the\s+end\s+of\s+(?:this\s+)?(?:the\s+)?course
EndOfCoursePattern ==
    RxSeq(<< RxWords(<<"by", "the", "end", "of">>), RxSpaces1,
             RxOpt(RxSeq(<<RxLit("this"), RxSpaces1>>)),
             RxOpt(RxSeq(<<RxLit("the"), RxSpaces1>>)),
             RxLit("course") >>)

\* by\s+the\s+end\s+of\s+(?:this\s+)?(?:module|week|unit|lesson)
EndOfModulePattern ==
    RxSeq(<< RxWords(<<"by", "the", "end", "of">>), RxSpaces1,
             RxOpt(RxSeq(<<RxLit("this"), RxSpaces1>>)),
             RxAlt(<<RxLit("module"), RxLit("week"), RxLit("unit"), RxLit("lesson")>>) >>)

\* \d
RxDigit == RxCls(DigitChars, FALSE, 1, 1)

\* module[-\s]?\d|week[-\s]?\d|unit[-\s]?\d|\bmod[-\s]?\d
ModuleNumberPattern ==
    RxAlt(<< RxSeq(<<RxLit("module"), RxDashOrSpace, RxDigit>>),
             RxSeq(<<RxLit("week"), RxDashOrSpace, RxDigit>>),
             RxSeq(<<RxLit("unit"), RxDashOrSpace, RxDigit>>),
             RxSeq(<<RxWordB, RxLit("mod"), RxDashOrSpace, RxDigit>>) >>)

CLO_PAGE_KEYS ==
    <<"syllabus", "course-info", "course-overview", "welcome", "introduction",
      "getting-started", "start-here", "outcomes", "goals", "course-objectives">>

\* the conditions of the rules, on src = source_label.lower() and
\* txt = text.lower()
HasCloLabel(src, txt) == re_matches(CloLabelPattern, txt \o " " \o src)
HasMloLabel(src, txt) == re_matches(MloLabelPattern, txt \o " " \o src)
IsSyllabusSource(src) == src = "[syllabus]"
HasEndOfCourse(txt) == re_matches(EndOfCoursePattern, txt)
HasEndOfModule(txt) == re_matches(EndOfModulePattern, txt)
IsCoursePage(src) == \E i \in 1..Len(CLO_PAGE_KEYS) : Contains(src, CLO_PAGE_KEYS[i])
HasModuleNumber(src) == re_matches(ModuleNumberPattern, src)
IsAssignmentSource(src) == StartsWith(src, "[assignment]")

\* mutant: the assignment rule is tried before the page-name rules
classify_obj_type_AssignmentFirst(source_label, text) ==
    LET src == Lower(source_label)
        txt == Lower(text)
    IN  IF HasCloLabel(src, txt) THEN "CLO"
        ELSE IF HasMloLabel(src, txt) THEN "MLO"
        ELSE IF IsSyllabusSource(src) THEN "CLO"
        ELSE IF HasEndOfCourse(txt) THEN "CLO"
        ELSE IF HasEndOfModule(txt) THEN "MLO"
        ELSE IF IsAssignmentSource(src) THEN "MLO"
        ELSE IF IsCoursePage(src) THEN "CLO"
        ELSE IF HasModuleNumber(src) THEN "MLO"
        ELSE "unknown"

\* _classify_obj_type(source_label, text)
classify_obj_type(source_label, text) ==
    LET src == Lower(source_label)
        txt == Lower(text)
    IN  IF HasCloLabel(src, txt) THEN "CLO"
        ELSE IF HasMloLabel(src, txt) THEN "MLO"
        ELSE IF IsSyllabusSource(src) THEN "CLO"
        ELSE IF HasEndOfCourse(txt) THEN "CLO"
        ELSE IF HasEndOfModule(txt) THEN "MLO"
        ELSE IF IsCoursePage(src) THEN "CLO"
        ELSE IF HasModuleNumber(src) THEN "MLO"
        ELSE IF IsAssignmentSource(src) THEN "MLO"
        ELSE "unknown"

(***************************************************************************)
(* _extract_objectives_from_text, extract_learning_objectives and          *)
(* extract_syllabus_objectives.  An objective is the record of its text,   *)
(* blooms, source, obj_type and, once the caller has set it, module_num    *)
(* (the number in decimal, the position text of a module, or None).        *)
(***************************************************************************)
MinObjectiveLen == 20
MaxObjectiveText == 200
MinCaptureLen == 15
MaxCaptureLen == 250
MinContentLen == 80
PrefixLen == 60
MaxCourseObjectives == 60
MaxSyllabusObjectives == 40
MaxBulletCapture == 200
MaxSectionLines == 30

\* U+2022 (bullet), written in ASCII
Bullet == "@"

\* the first index >= j of s that holds no whitespace (Len(s) + 1 if none)
SkipSpaces(s, j) ==
    LET N == {k \in j..Len(s) : ~IsSpace(Char(s, k))}
    IN  IF N = {} THEN Len(s) + 1 ELSE CHOOSE k \in N : \A l \in N : k <= l

\* the first index >= j of s that holds one of  . ! ? \n  (0 if none)
NextTerminator(s, j) ==
    LET T == {k \in j..Len(s) : Char(s, k) \in {".", "!", "?", "\n"}}
    IN  IF T = {} THEN 0 ELSE CHOOSE k \in T : \A l \in T : k <= l

Subjects == {"students", "you", "learners", "participants"}

\* r'(?:students|you|learners|participants)\s+will\s+([^.!?\n]{15,250})[.!?\n]'
\* tried at index i of text (low is text.lower()): <<start, end>> of group 1,
\* or <<0, 0>>
DirectAddressAt(text, low, i) ==
    IF \E w \in Subjects : Slice(low, i, i + Len(w) - 1) = w
    THEN LET w  == CHOOSE x \in Subjects : Slice(low, i, i + Len(x) - 1) = x
             j  == i + Len(w)
             j2 == SkipSpaces(low, j)
             j3 == j2 + 4
             c  == SkipSpaces(low, j3)
             t  == NextTerminator(low, c)
         IN  IF /\ j2 > j
                /\ Slice(low, j2, j2 + 3) = "will"
                /\ c > j3
                /\ t # 0
                /\ t - c >= MinCaptureLen
                /\ t - c <= MaxCaptureLen
             THEN <<c, t - 1>>
             ELSE <<0, 0>>
    ELSE <<0, 0>>

RECURSIVE DirectAddressWalk(_, _, _, _, _)
\* the scan of the positions from..to, left to right: acc.found holds the
\* captures so far and acc.pos the position the scan goes on from
DirectAddressWalk(text, low, acc, from, to) ==
    IF from > to THEN acc
    ELSE IF from = to
    THEN IF from < acc.pos THEN acc
         ELSE LET g == DirectAddressAt(text, low, from)
              IN  IF g[1] = 0 THEN acc
                  ELSE [pos   |-> g[2] + 2,
                        found |-> Append(acc.found, Slice(text, g[1], g[2]))]
    ELSE LET mid  == (from + to) \div 2
             left == DirectAddressWalk(text, low, acc, from, mid)
         IN  IF left.pos > to THEN left
             ELSE DirectAddressWalk(text, low, left, mid + 1, to)

\* [m.group(1) for m in re.finditer(pattern, text, re.IGNORECASE)] from index from
DirectAddressMatches(text, low, from) ==
    DirectAddressWalk(text, low, [pos |-> from, found |-> <<>>], from, Len(text)).found

RECURSIVE RStripPunct(_)
\* str.rstrip('.,;')
RStripPunct(s) ==
    IF Len(s) > 0 /\ CharAt(s, Len(s)) \in {".", ",", ";"}
    THEN RStripPunct(Slice(s, 1, Len(s) - 1))
    ELSE s

\* re.search(r'href=|<[a-z]+|click here|log.?in|canvas\.', clean, re.IGNORECASE)
IsArtifact(clean) ==
    LET low == Lower(clean)
    IN  \/ Contains(low, "href=")
        \/ \E i \in 1..(Len(low) - 1) :
              CharAt(low, i) = "<" /\ CharAt(low, i + 1) \in Letters
        \/ Contains(low, "click here")
        \/ Contains(low, "login")
        \/ \E i \in 1..(Len(low) - 5) :
              /\ Slice(low, i, i + 2) = "log"
              /\ CharAt(low, i + 3) # "\n"
              /\ Slice(low, i + 4, i + 5) = "in"
        \/ Contains(low, "canvas.")

Prefix(s, n) == IF Len(s) = 0 THEN s ELSE SubSeq(s, 1, IF Len(s) < n THEN Len(s) ELSE n)

\* mutant: the objective is classified by its source alone
AddObjective_SourceOnly(acc, raw, source_label) ==
    LET clean == RStripPunct(Strip(CollapseSpaces(raw)))
        norm  == CollapseSpaces(Lower(clean))
    IN  IF Len(clean) < MinObjectiveLen THEN acc
        ELSE IF IsArtifact(clean) THEN acc
        ELSE IF norm \in acc.found_norms THEN acc
        ELSE [results     |-> Append(acc.results,
                                     [text     |-> Prefix(clean, MaxObjectiveText),
                                      blooms   |-> detect_blooms_level(clean),
                                      source   |-> source_label,
                                      obj_type |-> classify_obj_type(source_label, "")]),
              found_norms |-> acc.found_norms \cup {norm}]

\* _add(raw): acc is [results, found_norms]
AddObjective(acc, raw, source_label) ==
    LET clean == RStripPunct(Strip(CollapseSpaces(raw)))
        norm  == CollapseSpaces(Lower(clean))
    IN  IF Len(clean) < MinObjectiveLen THEN acc
        ELSE IF IsArtifact(clean) THEN acc
        ELSE IF norm \in acc.found_norms THEN acc
        ELSE [results     |-> Append(acc.results,
                                     [text     |-> Prefix(clean, MaxObjectiveText),
                                      blooms   |-> detect_blooms_level(clean),
                                      source   |-> source_label,
                                      obj_type |-> classify_obj_type(source_label, clean)]),
              found_norms |-> acc.found_norms \cup {norm}]

RECURSIVE AddAll(_, _, _)
\* for raw in raws: _add(raw)
AddAll(acc, raws, source_label) ==
    IF raws = <<>> THEN acc
    ELSE IF Len(raws) = 1 THEN AddObjective(acc, raws[1], source_label)
    ELSE LET left == AddAll(acc, SubSeq(raws, 1, Len(raws) \div 2), source_label)
         IN  \* the test has the first half evaluated before the second is entered
             IF left = acc
             THEN AddAll(acc, SubSeq(raws, Len(raws) \div 2 + 1, Len(raws)), source_label)
             ELSE AddAll(left, SubSeq(raws, Len(raws) \div 2 + 1, Len(raws)), source_label)

\* [^.!?\n]{15,250}
RxStatement == RxCls({".", "!", "?", "\n"}, TRUE, MinCaptureLen, MaxCaptureLen)

\* (?:this\s+)?
RxOptThis == RxOpt(RxSeq(<<RxLit("this"), RxSpaces1>>))

\* [^,\n]*,?\s*
RxToComma == RxSeq(<<RxCls({",", "\n"}, TRUE, 0, RxInf), RxOpt(RxLit(",")), RxSpaces0>>)

\* PATTERNS[1]: by\s+the\s+end\s+of\s+(?:this\s+)?(?:module|week|course|unit|lesson)
\*   [^,\n]*,?\s*(?:you\s+will\s+be\s+able\s+to|you\s+will|students\s+will)\s*:?\s*
\*   ([^.!?\n]{15,250})
EndOfPeriodPattern ==
    RxSeq(<< RxWords(<<"by", "the", "end", "of">>), RxSpaces1, RxOptThis,
             RxAlt(<<RxLit("module"), RxLit("week"), RxLit("course"), RxLit("unit"),
                     RxLit("lesson")>>),
             RxToComma,
             RxAlt(<<RxWords(<<"you", "will", "be", "able", "to">>),
                     RxWords(<<"you", "will">>), RxWords(<<"students", "will">>)>>),
             RxSpaces0, RxOpt(RxLit(":")), RxSpaces0,
             RxGrp(RxStatement) >>)

\* PATTERNS[2]: upon\s+completion\s+of\s+(?:this\s+)?(?:module|course|unit|lesson)
\*   [^,\n]*,?\s*(?:students|you|learners)\s+will\s+([^.!?\n]{15,250})
UponCompletionPattern ==
    RxSeq(<< RxWords(<<"upon", "completion", "of">>), RxSpaces1, RxOptThis,
             RxAlt(<<RxLit("module"), RxLit("course"), RxLit("unit"), RxLit("lesson")>>),
             RxToComma,
             RxAlt(<<RxLit("students"), RxLit("you"), RxLit("learners")>>),
             RxSpaces1, RxLit("will"), RxSpaces1,
             RxGrp(RxStatement) >>)

\* PATTERNS[3]: (?:clo|mlo|slo|lo|course\s+objective|learning\s+objective|
\*   module\s+objective)\s*[-:#]?\s*\d*\s*[:.]\s*([^.\n]{15,250})
ExplicitLabelPattern ==
    RxSeq(<< RxAlt(<<RxLit("clo"), RxLit("mlo"), RxLit("slo"), RxLit("lo"),
                     RxWords(<<"course", "objective">>),
                     RxWords(<<"learning", "objective">>),
                     RxWords(<<"module", "objective">>)>>),
             RxSpaces0, RxCls({"-", ":", "#"}, FALSE, 0, 1), RxSpaces0, RxDigits0,
             RxSpaces0, RxCls({":", "."}, FALSE, 1, 1), RxSpaces0,
             RxGrp(RxCls({".", "\n"}, TRUE, MinCaptureLen, MaxCaptureLen)) >>)

\* PATTERNS[4]: (?:^|\n)\s*(?:\d+[.)]\s*|[-•*]\s*)([A-Z][a-z]{2,}\s[^.\n]{15,200})
\* (with re.IGNORECASE both letter classes hold the letters of either case)
BulletedPattern ==
    RxSeq(<< RxAlt(<<RxBol, RxLit("\n")>>), RxSpaces0,
             RxAlt(<<RxSeq(<<RxCls(DigitChars, FALSE, 1, RxInf),
                             RxCls({".", ")"}, FALSE, 1, 1), RxSpaces0>>),
                     RxSeq(<<RxCls({"-", Bullet, "*"}, FALSE, 1, 1), RxSpaces0>>)>>),
             RxGrp(RxSeq(<<RxCls(Letters, FALSE, 1, 1), RxCls(Letters, FALSE, 2, RxInf),
                           RxCls(SpaceChars, FALSE, 1, 1),
                           RxCls({".", "\n"}, TRUE, MinCaptureLen, MaxBulletCapture)>>)) >>)

\* SECTION_RE: (?:course\s+)?(?:module\s+)?(?:learning\s+)?objectives?\s*:?[ \t]*\n
\*   ((?:[^\n]+\n){1,30})
SECTION_RE ==
    RxSeq(<< RxOpt(RxSeq(<<RxLit("course"), RxSpaces1>>)),
             RxOpt(RxSeq(<<RxLit("module"), RxSpaces1>>)),
             RxOpt(RxSeq(<<RxLit("learning"), RxSpaces1>>)),
             RxLit("objective"), RxOpt(RxLit("s")), RxSpaces0, RxOpt(RxLit(":")),
             RxCls({" ", "\t"}, FALSE, 0, RxInf), RxLit("\n"),
             RxGrp(RxRep(RxSeq(<<RxCls({"\n"}, TRUE, 1, RxInf), RxLit("\n")>>),
                         1, MaxSectionLines)) >>)

\* [m.group(1) for m in re.finditer(pattern, text, re.IGNORECASE | re.MULTILINE)]
GroupOnes(pattern, text) ==
    LET ms == RxFindIter(pattern, Lower(text), 1)
    IN  [i \in 1..Len(ms) |-> Slice(text, ms[i].gs, ms[i].ge)]

RECURSIVE SplitLines(_)
\* str.splitlines(), the line breaks being \n, \r and \r\n
SplitLines(s) ==
    LET B == {k \in 1..Len(s) : Char(s, k) \in {"\n", "\r"}}
        k == CHOOSE x \in B : \A y \in B : x <= y
        skip == IF Char(s, k) = "\r" /\ k < Len(s) /\ Char(s, k + 1) = "\n" THEN 2 ELSE 1
    IN  IF s = "" THEN <<>>
        ELSE IF B = {} THEN <<s>>
        ELSE <<Slice(s, 1, k - 1)>> \o SplitLines(Slice(s, k + skip, Len(s)))

\* re.sub(r'^[\s\d.)\-•*]+', '', line)
StripListMarks(line) ==
    LET marks == SpaceChars \cup DigitChars \cup {".", ")", "-", Bullet, "*"}
        N == {k \in 1..Len(line) : Char(line, k) \notin marks}
    IN  IF N = {} THEN "" ELSE Slice(line, CHOOSE k \in N : \A l \in N : k <= l, Len(line))

\* section_hint of the section matched by sec
SectionHint(text, sec) ==
    LET group0 == Slice(text, sec.start, sec.end)
        nl     == IndexOf(group0, "\n", 1)
        header == Lower(Slice(group0, 1, nl - 1))
    IN  IF Contains(header, "module") THEN "MLO"
        ELSE IF Contains(header, "course") THEN "CLO"
        ELSE None

\* the lines of the section matched by sec, as the loop cleans them
SectionLines(text, sec) ==
    LET raw == SplitLines(Slice(text, sec.gs, sec.ge))
    IN  [i \in 1..Len(raw) |-> Strip(StripListMarks(raw[i]))]

\* mutant: the header of the section is not consulted
AddSectionLine_NoHint(acc, line, section_hint, source_label) ==
    LET norm == CollapseSpaces(Lower(line))
    IN  IF Len(line) < MinObjectiveLen THEN acc
        ELSE IF norm \in acc.found_norms THEN acc
        ELSE IF detect_blooms_level(line) # "Unclear" \/ section_hint # None
        THEN [results     |-> Append(acc.results,
                                     [text     |-> Prefix(line, MaxObjectiveText),
                                      blooms   |-> detect_blooms_level(line),
                                      source   |-> source_label,
                                      obj_type |-> classify_obj_type(source_label, line)]),
              found_norms |-> acc.found_norms \cup {norm}]
        ELSE acc

\* one iteration of  for line in sec.group(1).splitlines()
AddSectionLine(acc, line, section_hint, source_label) ==
    LET norm == CollapseSpaces(Lower(line))
    IN  IF Len(line) < MinObjectiveLen THEN acc
        ELSE IF norm \in acc.found_norms THEN acc
        ELSE IF detect_blooms_level(line) # "Unclear" \/ section_hint # None
        THEN [results     |-> Append(acc.results,
                                     [text     |-> Prefix(line, MaxObjectiveText),
                                      blooms   |-> detect_blooms_level(line),
                                      source   |-> source_label,
                                      obj_type |-> IF section_hint # None THEN section_hint
                                                   ELSE classify_obj_type(source_label, line)]),
              found_norms |-> acc.found_norms \cup {norm}]
        ELSE acc

RECURSIVE AddSectionLines(_, _, _, _)
AddSectionLines(acc, lines, section_hint, source_label) ==
    IF lines = <<>> THEN acc
    ELSE AddSectionLines(AddSectionLine(acc, Head(lines), section_hint, source_label),
                         Tail(lines), section_hint, source_label)

RECURSIVE SectionPass(_, _, _, _)
\* for sec in SECTION_RE.finditer(text)
SectionPass(acc, text, secs, source_label) ==
    IF secs = <<>> THEN acc
    ELSE SectionPass(AddSectionLines(acc, SectionLines(text, Head(secs)),
                                     SectionHint(text, Head(secs)), source_label),
                     text, Tail(secs), source_label)

\* the texts PATTERNS captures in text, pattern after pattern
PatternCaptures(text) ==
    DirectAddressMatches(text, Lower(text), 1)
        \o GroupOnes(EndOfPeriodPattern, text)
        \o GroupOnes(UponCompletionPattern, text)
        \o GroupOnes(ExplicitLabelPattern, text)
        \o GroupOnes(BulletedPattern, text)

\* _extract_objectives_from_text(text, source_label, found_norms):
\* [results, found_norms], the set being the caller's, updated
ExtractObjectivesFromText(text, source_label, found_norms) ==
    AddAll(SectionPass([results |-> <<>>, found_norms |-> found_norms], text,
                       RxFindIter(SECTION_RE, Lower(text), 1), source_label),
           PatternCaptures(text), source_label)

PRIORITY_KEYS ==
    <<"objective", "overview", "welcome", "introduction", "getting-started",
      "start-here", "outcomes", "goals", "competenc", "module", "week", "unit">>

page_priority(name) ==
    LET n == Lower(name)
        P == {i \in 1..Len(PRIORITY_KEYS) : Contains(n, PRIORITY_KEYS[i])}
    IN  IF P = {} THEN Len(PRIORITY_KEYS)
        ELSE (CHOOSE i \in P : \A j \in P : i <= j) - 1

\* sorted(data['wiki_full'].items(), key=lambda x: page_priority(x[0]))
SortedWikiPages(wf) ==
    Concat([p \in 1..(Len(PRIORITY_KEYS) + 1) |->
               SelectSeq(wf, LAMBDA e : page_priority(e[1]) = p - 1)])

\* (?:module|week|unit|mod)[-\s]?(\d+)
SourceNumberPattern ==
    RxSeq(<< RxAlt(<<RxLit("module"), RxLit("week"), RxLit("unit"), RxLit("mod")>>),
             RxDashOrSpace, RxGrp(RxCls(DigitChars, FALSE, 1, RxInf)) >>)

\* _module_number_from_source(source_label, modules): the int in decimal,
\* the position of a module (extract_modules sets no 'number'), or None
module_number_from_source(source_label, the_modules) ==
    LET src == Lower(source_label)
        ms  == RxFindIter(SourceNumberPattern, src, 1)
        T   == {i \in 1..Len(the_modules) :
                   \E w \in LongWords(Lower(the_modules[i].title)) : Contains(src, w)}
    IN  IF ms # <<>> THEN DecimalStr(ParseInt(Slice(src, ms[1].gs, ms[1].ge)))
        ELSE IF T # {} THEN the_modules[CHOOSE i \in T : \A j \in T : i <= j].position
        ELSE None

\* for obj in found: obj['module_num'] = module_num
WithModuleNum(found, module_num) ==
    [i \in 1..Len(found) |->
        [text |-> found[i].text, blooms |-> found[i].blooms, source |-> found[i].source,
         obj_type |-> found[i].obj_type, module_num |-> module_num]]

\* course_objectives.extend(found), each obj of found with its module_num;
\* f is what _extract_objectives_from_text returned
Extend(acc, f, module_num) ==
    [results     |-> acc.results \o WithModuleNum(f.results, module_num),
     found_norms |-> f.found_norms]

\* one iteration of  for page_name, content in wiki_pages
PageStep(acc, page_name, content, the_modules) ==
    IF content # "" /\ Len(Strip(content)) > MinContentLen
    THEN Extend(acc, ExtractObjectivesFromText(content, page_name, acc.found_norms),
                module_number_from_source(page_name, the_modules))
    ELSE acc

RECURSIVE PagesLoop(_, _, _)
\* for page_name, content in wiki_pages: acc is [results, found_norms]
PagesLoop(acc, pages, the_modules) ==
    IF pages = <<>> THEN acc
    ELSE PagesLoop(PageStep(acc, Head(pages)[1], Head(pages)[2], the_modules),
                   Tail(pages), the_modules)

\* one iteration of  for assign_name, det in data.get('assignments', {}).items()
AssignmentStep(acc, assign_name, det, instructions, the_modules) ==
    IF instructions # "" /\ Len(instructions) > MinContentLen
    THEN Extend(acc,
                ExtractObjectivesFromText(instructions, "[Assignment] " \o assign_name,
                                          acc.found_norms),
                module_number_from_source(det.folder_id, the_modules))
    ELSE acc

RECURSIVE AssignmentsLoop(_, _, _)
\* for assign_name, det in data.get('assignments', {}).items()
AssignmentsLoop(acc, assignments, the_modules) ==
    IF assignments = <<>> THEN acc
    ELSE AssignmentsLoop(AssignmentStep(acc, Head(assignments)[1], Head(assignments)[2],
                                        Strip(Head(assignments)[2].instructions),
                                        the_modules),
                         Tail(assignments), the_modules)

\* mutant: the whole text is the key
PrefixKey_FullText(text) == Strip(Lower(text))

\* prefix = obj['text'][:60].lower().strip()
PrefixKey(text) == Strip(Lower(Prefix(text, PrefixLen)))

RECURSIVE DedupLoop(_, _)
\* for obj in objs: if prefix not in seen_prefixes: add it, append obj
DedupLoop(acc, objs) ==
    IF objs = <<>> THEN acc
    ELSE IF Len(objs) = 1
    THEN LET prefix == PrefixKey(objs[1].text)
         IN  IF prefix \in acc.seen_prefixes THEN acc
             ELSE [unique        |-> Append(acc.unique, objs[1]),
                   seen_prefixes |-> acc.seen_prefixes \cup {prefix}]
    ELSE LET left == DedupLoop(acc, SubSeq(objs, 1, Len(objs) \div 2))
         IN  \* the test has the first half evaluated before the second is entered
             IF left = acc
             THEN DedupLoop(acc, SubSeq(objs, Len(objs) \div 2 + 1, Len(objs)))
             ELSE DedupLoop(left, SubSeq(objs, Len(objs) \div 2 + 1, Len(objs)))

\* the objectives whose 60-character prefix was not seen before
DedupByPrefix(objs, seen_prefixes) ==
    DedupLoop([unique |-> <<>>, seen_prefixes |-> seen_prefixes], objs).unique

\* course_objectives when the two loops of extract_learning_objectives
\* are done
CourseObjectivesFound(data, the_modules) ==
    AssignmentsLoop(PagesLoop([results |-> <<>>, found_norms |-> {}],
                              SortedWikiPages(data.wiki_full), the_modules),
                    data.assignments, the_modules).results

\* mutant: the cap is applied before the deduplication
extract_learning_objectives_CapFirst(data, the_modules) ==
    DedupByPrefix(Prefix(CourseObjectivesFound(data, the_modules), MaxCourseObjectives), {})

\* extract_learning_objectives(data, modules)
extract_learning_objectives(data, the_modules) ==
    LET course_objs == CourseObjectivesFound(data, the_modules)
        deduped     == DedupByPrefix(course_objs, {})
    IN  Prefix(deduped, MaxCourseObjectives)

\* found, in extract_syllabus_objectives
SyllabusObjectivesFound(data) ==
    LET syl_text == Strip(data.syllabus_text)
    IN  IF syl_text = "" THEN <<>>
        ELSE WithModuleNum(ExtractObjectivesFromText(syl_text, "[Syllabus]", {}).results,
                           None)

\* extract_syllabus_objectives(data)
extract_syllabus_objectives(data) ==
    Prefix(DedupByPrefix(SyllabusObjectivesFound(data), {}), MaxSyllabusObjectives)

\* objectives = extract_learning_objectives(data, modules); the archives of
\* this specification hold no assignment
ExtractLearningObjectives ==
    /\ pc = "read"
    /\ objectives' = extract_learning_objectives(
                          [wiki_full |-> wiki_full, assignments |-> <<>>], modules)
    /\ pc' = "done"
    /\ UNCHANGED <<vars_pub, vars_xml, vars_res, archive, vars_wiki, vars_mod, vars_cmp,
                   vars_call>>

(***************************************************************************)
(* Archives: wiki pages, each listed or not in the module metadata and in  *)
(* the manifest, with or without a module_meta.xml member.                 *)
(***************************************************************************)
MaxPages == 2

PageKinds ==
    << [path |-> "wiki_content/week-1-overview.html",
        raw  |-> "<h2>Week 1 &amp; 2</h2><p>Students will analyze three case studies and design a solution.</p> <p>Read chapter one before the first class meeting.</p>"],
       [path |-> "wiki_content/honorlock-proctoring.html",
        raw  |-> "<p>Students will install the Honorlock browser extension before the first proctored exam. Contact support with questions.</p>"],
       [path |-> "wiki_content/YouTube-Playlist.html",
        raw  |-> "<p>Watch</p>"],
       [path |-> "wiki_content/blank.html",
        raw  |-> "<p>&nbsp;</p>"],
       [path |-> "wiki_content/broken.html",
        raw  |-> ReadError] >>

\* how the export lists a page:  active / unpublished: a module item in that
\* state and a manifest resource;  unlisted: a resource, no module item;
\* unmapped: an active module item, no resource
PageStatuses == {"active", "unpublished", "unlisted", "unmapped"}

RefOf(k) == <<"g1", "g2", "g3", "g4", "g5">>[k]

PathIndex(path) == CHOOSE k \in 1..Len(PageKinds) : PageKinds[k].path = path

\* the archive with the pages of chosen, listed as st says
ArchiveOf(chosen, st, meta_present) ==
    LET pages == [i \in 1..Cardinality(chosen) |-> KthSmallest(chosen, i)]
        listed == SelectSeq(pages, LAMBDA k : st[k] \in {"active", "unpublished", "unmapped"})
        mapped == SelectSeq(pages, LAMBDA k : st[k] # "unmapped")
        meta == SerializeModuleMeta(
                    <<Module("Module 1", "active", "1",
                             [i \in 1..Len(listed) |->
                                 Item(RefOf(listed[i]),
                                      IF st[listed[i]] = "unpublished"
                                      THEN "unpublished" ELSE "active")])>>)
        mani == SerializeManifest(
                    [i \in 1..Len(mapped) |->
                        Resource(RefOf(mapped[i]), PageKinds[mapped[i]].path,
                                 PageKinds[mapped[i]].path)])
        names == (IF meta_present THEN <<ModuleMetaPath>> ELSE <<>>)
                    \o <<ManifestPath, "wiki_content/notes.txt">>
                    \o [i \in 1..Len(pages) |-> PageKinds[pages[i]].path]
    IN  [names |-> names,
         body  |-> [n \in Range(names) |->
                       IF n = ModuleMetaPath THEN meta
                       ELSE IF n = ManifestPath THEN mani
                       ELSE IF n = "wiki_content/notes.txt" THEN "notes"
                       ELSE PageKinds[PathIndex(n)].raw]]

Archives ==
    UNION {{ArchiveOf(chosen, st, mp) : st \in [chosen -> PageStatuses], mp \in BOOLEAN} :
           chosen \in {c \in SUBSET (1..Len(PageKinds)) : Cardinality(c) <= MaxPages}}

InitRead ==
    /\ pc = "open"
    /\ archive \in Archives
    /\ IdlePub /\ IdleXml /\ IdleRes /\ IdleWiki /\ IdleMod /\ IdleCmp /\ IdleCall
    /\ objectives = <<>>

NextRead == ReadSettings \/ WikiPage \/ WikiDone \/ ExtractLearningObjectives

SpecRead == InitRead /\ [][NextRead]_vars


(***************************************************************************)
(* C4  when the archive has no module_meta.xml member, or the member       *)
(* holds no item block, item_states is empty and every wiki page is        *)
(* treated as published: the unpublished count stays 0 and the list of     *)
(* unpublished page names stays empty.                                     *)
(***************************************************************************)
NoItemBlocks ==
    \/ ModuleMetaPath \notin Range(archive.names)
    \/ re_split_tail(archive.body[ModuleMetaPath], "item") = <<>>

C4_FallbackInclusive ==
    (pc \in {"wiki", "read", "done"} /\ NoItemBlocks) =>
        /\ DOMAIN item_states = {}
        /\ wiki_unpub = 0
        /\ wiki_unpublished = <<>>
        /\ pc \in {"read", "done"} => wiki_pub = Len(WikiFiles(archive.names))

\* two pages, both in the manifest, and no module metadata
C4_Witness ==
    /\ pc = "done"
    /\ ModuleMetaPath \notin Range(archive.names)
    /\ DOMAIN id_to_href # {}
    /\ wiki_pub = 2
    /\ wiki_unpub = 0

(***************************************************************************)
(* C5  with item_states not empty, a wiki page whose path is not in        *)
(* published_hrefs is listed by name among the unpublished pages and       *)
(* nowhere else: not a key of wiki_full, not in wiki_titles, not the       *)
(* source of an extracted objective; and no page name is in two of the     *)
(* three buckets.                                                          *)
(***************************************************************************)
Count(q, x) == Cardinality({i \in 1..Len(q) : q[i] = x})

C5_UnpublishedExcluded ==
    pc \in {"wiki", "read", "done"} =>
        /\ DOMAIN item_states # {} =>
              \A i \in 1..(wiki_i - 1) :
                  LET page_path == WikiFiles(archive.names)[i]
                      page_name == PageName(page_path)
                  IN  page_path \notin published_hrefs =>
                          /\ Count(wiki_unpublished, page_name) = 1
                          /\ page_name \notin Keys(wiki_full)
                          /\ page_name \notin Range(wiki_titles)
                          /\ \A k \in 1..Len(objectives) :
                                objectives[k].source # page_name
        /\ Keys(wiki_full) \cap Range(wiki_titles) = {}
        /\ Keys(wiki_full) \cap Range(wiki_unpublished) = {}
        /\ Range(wiki_titles) \cap Range(wiki_unpublished) = {}

\* the page with an objective in it is unpublished, another page is published
C5_Witness ==
    /\ pc = "done"
    /\ DOMAIN item_states # {}
    /\ wiki_unpublished = <<"week-1-overview">>
    /\ wiki_pub = 1
    /\ objectives = <<>>

(***************************************************************************)
(* C6  (as amended) the text of a wiki page whose slug holds a media       *)
(* keyword is never stored in wiki_full; its name is recorded in           *)
(* wiki_titles if the page is published (its path is in published_hrefs,   *)
(* or item_states is empty), and only in wiki_unpublished if it is not.    *)
(***************************************************************************)
SlugHasMediaKeyword(page_name) ==
    \E k \in MEDIA_KEYWORDS : Contains(Lower(page_name), k)

MediaPagePaths ==
    {p \in Range(WikiFiles(archive.names)) : SlugHasMediaKeyword(PageName(p))}

C6_MediaPages ==
    pc \in {"read", "done"} =>
        \A p \in MediaPagePaths :
            /\ PageName(p) \notin Keys(wiki_full)
            /\ IF p \in published_hrefs \/ DOMAIN item_states = {}
               THEN /\ Count(wiki_titles, PageName(p)) = 1
                    /\ PageName(p) \notin Range(wiki_unpublished)
               ELSE /\ PageName(p) \notin Range(wiki_titles)
                    /\ Count(wiki_unpublished, PageName(p)) = 1

\* the page of the spec's scenario, listed as active
C6_Witness ==
    /\ pc = "done"
    /\ "wiki_content/honorlock-proctoring.html" \in published_hrefs
    /\ wiki_titles = <<"honorlock-proctoring">>
    /\ "honorlock-proctoring" \notin Keys(wiki_full)

\* C6 as stated: a media page is in wiki_titles whatever its publish state
C6_Original ==
    pc \in {"read", "done"} =>
        \A p \in MediaPagePaths :
            /\ PageName(p) \in Range(wiki_titles)
            /\ PageName(p) \notin Keys(wiki_full)


(***************************************************************************)
(* C29  after the loop over the wiki pages, the published and unpublished  *)
(* counts add up to the number of wiki_content/*.html members, the         *)
(* unpublished count is the length of the list of unpublished page names,  *)
(* and the published count is at least the number of wiki_full entries     *)
(* plus the number of wiki_titles entries.                                 *)
(***************************************************************************)
C29_WikiCounts ==
    pc \in {"read", "done"} =>
        /\ wiki_pub + wiki_unpub = Len(WikiFiles(archive.names))
        /\ wiki_unpub = Len(wiki_unpublished)
        /\ wiki_pub >= Len(wiki_full) + Len(wiki_titles)

\* an unpublished page, and a published page counted and stored nowhere
C29_Witness ==
    /\ pc = "read"
    /\ wiki_unpub >= 1
    /\ wiki_pub > Len(wiki_full) + Len(wiki_titles)

(***************************************************************************)
(* extract_modules                                                         *)
(***************************************************************************)
\* U+2014 (em dash), written in ASCII
EmDash == "^"

\* the first index >= j of s that holds no digit (Len(s) + 1 if none)
SkipDigits(s, j) ==
    LET N == {k \in j..Len(s) : ~IsDigit(Char(s, k))}
    IN  IF N = {} THEN Len(s) + 1 ELSE CHOOSE k \in N : \A l \in N : k <= l

\* the characters of the class  [|:U+2014\-]
WeekSeparators == {"|", ":", EmDash, "-"}

\* re.match(r'week\s+(\d+)\s*(?:[|:U+2014\-]\s*(.+))?', item_title, re.IGNORECASE):
\* whether it matches, group 1, and group 2 (None if the optional part
\* does not take part in the match)
week_match(item_title) ==
    LET s == item_title
        a == SkipSpaces(s, 5)          \* after  week\s+
        b == SkipDigits(s, a)          \* after  (\d+)
        c == SkipSpaces(s, b)          \* after  \s*
        d == SkipSpaces(s, c + 1)      \* after the separator and  \s*
        nl == IndexOf(s, "\n", d)
        e == IF nl = 0 THEN Len(s) ELSE nl - 1   \* (.+) stops at a newline
        \* only whitespace after the separator: \s* gives back one character
        K == {k \in (c + 1)..Len(s) : CharAt(s, k) # "\n"}
    IN  IF Lower(Slice(s, 1, 4)) = "week" /\ a > 5 /\ b > a
        THEN [ok |-> TRUE,
              group1 |-> Slice(s, a, b - 1),
              group2 |-> IF CharAt(s, c) \in WeekSeparators
                         THEN IF d <= Len(s) THEN Slice(s, d, e)
                              ELSE IF K = {} THEN None
                              ELSE CharAt(s, CHOOSE k \in K : \A l \in K : l <= k)
                         ELSE None]
        ELSE [ok |-> FALSE, group1 |-> None, group2 |-> None]

\* current_week, from a match
WeekLabel(wm) ==
    LET week_label == IF wm.group2 # None THEN Strip(wm.group2) ELSE ""
    IN  "Week " \o wm.group1
            \o (IF week_label # "" THEN " " \o EmDash \o " " \o week_label ELSE "")

ItemRecord(title, type, is_week_header, week) ==
    [title |-> title, type |-> type, is_week_header |-> is_week_header,
     week |-> week, published |-> TRUE]

\* mutant: unpublished items are kept
ItemBlockStep_NoStateCheck(acc, item_block) ==
    LET t_m  == re_search(item_block, "title")
        ct_m == re_search(item_block, "content_type")
        item_title == Strip(strip_html(t_m))
        item_type  == IF ct_m # None THEN Strip(strip_html(ct_m)) ELSE ""
        wm == week_match(item_title)
    IN  IF t_m = None THEN acc
        ELSE IF wm.ok
        THEN [items |-> Append(acc.items,
                               ItemRecord(item_title, item_type, TRUE, WeekLabel(wm))),
              current_week |-> WeekLabel(wm)]
        ELSE [items |-> Append(acc.items,
                               ItemRecord(item_title, item_type, FALSE, acc.current_week)),
              current_week |-> acc.current_week]

\* mutant: the week header is recognised before the item's state is tested
ItemBlockStep_UnpublishedOpens(acc, item_block) ==
    LET t_m  == re_search(item_block, "title")
        ct_m == re_search(item_block, "content_type")
        istate_m == re_search(item_block, "workflow_state")
        item_title == Strip(strip_html(t_m))
        item_type  == IF ct_m # None THEN Strip(strip_html(ct_m)) ELSE ""
        item_state == IF istate_m # None THEN Strip(istate_m) ELSE "active"
        wm == week_match(item_title)
        pub == is_published_state(item_state)
    IN  IF t_m = None THEN acc
        ELSE IF wm.ok
        THEN [items |-> IF pub
                        THEN Append(acc.items,
                                    ItemRecord(item_title, item_type, TRUE, WeekLabel(wm)))
                        ELSE acc.items,
              current_week |-> WeekLabel(wm)]
        ELSE [items |-> IF pub
                        THEN Append(acc.items,
                                    ItemRecord(item_title, item_type, FALSE, acc.current_week))
                        ELSE acc.items,
              current_week |-> acc.current_week]

\* one iteration of  for item_block in item_blocks ; acc holds items and
\* current_week
ItemBlockStep(acc, item_block) ==
    LET t_m  == re_search(item_block, "title")
        ct_m == re_search(item_block, "content_type")
        istate_m == re_search(item_block, "workflow_state")
        item_title == Strip(strip_html(t_m))
        item_type  == IF ct_m # None THEN Strip(strip_html(ct_m)) ELSE ""
        item_state == IF istate_m # None THEN Strip(istate_m) ELSE "active"
        wm == week_match(item_title)
    IN  IF t_m = None THEN acc
        ELSE IF ~is_published_state(item_state) THEN acc
        ELSE IF wm.ok
        THEN [items |-> Append(acc.items,
                               ItemRecord(item_title, item_type, TRUE, WeekLabel(wm))),
              current_week |-> WeekLabel(wm)]
        ELSE [items |-> Append(acc.items,
                               ItemRecord(item_title, item_type, FALSE, acc.current_week)),
              current_week |-> acc.current_week]

RECURSIVE ItemBlocksLoop(_, _)
ItemBlocksLoop(acc, item_blocks) ==
    IF item_blocks = <<>> THEN acc
    ELSE ItemBlocksLoop(ItemBlockStep(acc, Head(item_blocks)), Tail(item_blocks))

\* re.search(r'<items>(.*?)</items>', block, re.DOTALL): group 1, the text
\* from the first <items> to the first </items> after it; '' if no match
items_section(block) ==
    LET O == {i \in 1..Len(block) : block[i].tag = "items"}
        o == CHOOSE i \in O : \A j \in O : i <= j
        E == {i \in 1..Len(block) : block[i].tag = "/items" /\ i > o}
        e == CHOOSE i \in E : \A j \in E : i <= j
    IN  IF O = {} THEN <<>>
        ELSE IF E = {} THEN <<>>
        ELSE SubSeq(block, o + 1, e - 1)

\* items of one module block (items = [], current_week = None, the loop)
ModuleItems(block) ==
    ItemBlocksLoop([items |-> <<>>, current_week |-> None],
                   re_split_tail(items_section(block), "item")).items

\* re.search(r'\d+', w).group(), w holding a digit
FirstDigitRun(w) ==
    LET D == {k \in 1..Len(w) : IsDigit(CharAt(w, k))}
        a == CHOOSE k \in D : \A l \in D : k <= l
    IN  Slice(w, a, SkipDigits(w, a) - 1)

\* the sort key of weeks_in_module
WeekKey(w) ==
    IF \E k \in 1..Len(w) : IsDigit(CharAt(w, k)) THEN ParseInt(FirstDigitRun(w)) ELSE 0

\* set(i['week'] for i in items if i.get('week') and i.get('is_week_header'))
HeaderWeeks(items) ==
    {items[k].week : k \in {j \in 1..Len(items) :
                               /\ items[j].week # None /\ items[j].week # ""
                               /\ items[j].is_week_header}}

\* sorted(set, key): the sort is stable and the iteration order of a set of
\* strings is not fixed, so labels with equal keys come in any order
SortedWeeks(S) ==
    {q \in SeqsOfLen(S, Cardinality(S)) :
        /\ Range(q) = S
        /\ \A i \in 1..Len(q) : \A j \in i..Len(q) : WeekKey(q[i]) <= WeekKey(q[j])}

\* title, position and state of a module block
ModuleTitle(block) ==
    IF re_search(block, "title") # None
    THEN Strip(strip_html(re_search(block, "title")))
    ELSE "Untitled Module"

ModulePosition(block) ==
    IF re_search(block, "position") # None
    THEN Strip(re_search(block, "position"))
    ELSE "?"

ModuleState(block) ==
    IF re_search(block, "workflow_state") # None
    THEN Strip(re_search(block, "workflow_state"))
    ELSE "active"

ModuleRecord(block, items, weeks_in_module) ==
    [title |-> ModuleTitle(block), position |-> ModulePosition(block),
     state |-> ModuleState(block), items |-> items,
     weeks_in_module |-> weeks_in_module]

\* module_blocks
ModuleBlocks(meta) == re_split_tail(meta, "module")

\* if not meta: return modules
ExtractModulesNoMeta ==
    /\ pc = "modules"
    /\ module_meta = <<>>
    /\ pc' = "done"
    /\ UNCHANGED <<vars_pub, vars_xml, vars_res, archive, vars_wiki, objectives, vars_mod,
                   vars_cmp, vars_call>>

\* one iteration of  for block in module_blocks
ModuleBlock ==
    /\ pc = "modules"
    /\ module_meta # <<>>
    /\ mod_i < Len(ModuleBlocks(module_meta))
    /\ LET block == ModuleBlocks(module_meta)[mod_i + 1]
           items == ModuleItems(block)
       IN  IF ~is_published_state(ModuleState(block))
           THEN modules' = modules
           ELSE \E weeks_in_module \in SortedWeeks(HeaderWeeks(items)) :
                    modules' = Append(modules, ModuleRecord(block, items, weeks_in_module))
    /\ mod_i' = mod_i + 1
    /\ UNCHANGED <<pc, vars_pub, vars_xml, vars_res, archive, vars_wiki, objectives, vars_cmp,
                   vars_call>>

\* return modules
ExtractModulesReturn ==
    /\ pc = "modules"
    /\ module_meta # <<>>
    /\ mod_i = Len(ModuleBlocks(module_meta))
    /\ pc' = "done"
    /\ UNCHANGED <<vars_pub, vars_xml, vars_res, archive, vars_wiki, objectives, vars_mod,
                   vars_cmp, vars_call>>

(***************************************************************************)
(* Module metadata given to extract_modules                                *)
(***************************************************************************)
MaxModItems == 3

ModItem(title, state, ctype) ==
    [ctype |-> ctype, state |-> state, title |-> title, ref |-> "g1"]

\* week headers (two with the same number), an unpublished header, a page
\* without a state, an item without a title
ModItems ==
    {ModItem("Week 2: Intro &amp; Setup", "active", "ContextModuleSubHeader"),
     ModItem("Week 2 | Review", "active", "ContextModuleSubHeader"),
     ModItem("WEEK 10 - Lab", "Active", "ContextModuleSubHeader"),
     ModItem("week 3", " unpublished ", "ContextModuleSubHeader"),
     ModItem("Weekly reading", None, "WikiPage"),
     ModItem(None, "active", "ExternalUrl")}

\* the workflow states of a single module, and of two modules
ModStates1 == {"active", "unpublished", None}
ModStates2 == {<<"active", "active">>, <<"unpublished", "Published">>, <<None, "unpublished">>}

RECURSIVE DistinctSeqsOfLen(_, _)
\* the sequences of n different elements of S
DistinctSeqsOfLen(S, n) ==
    IF n = 0 THEN {<<>>}
    ELSE UNION {{<<x>> \o t : t \in DistinctSeqsOfLen(S \ {x}, n - 1)} : x \in S}

\* the item lists: at most MaxModItems items, each kind at most once
ModItemLists == UNION {DistinctSeqsOfLen(ModItems, n) : n \in 0..MaxModItems}

\* the items in one module, or cut into two modules
ModModuleLists ==
    {<<Module("Module 1", st, "1", its)>> : st \in ModStates1, its \in ModItemLists}
    \cup
    UNION {{<<Module("Module 1", st[1], "1", SubSeq(its, 1, cut)),
              Module("Module 2", st[2], "2", SubSeq(its, cut + 1, Len(its)))>> :
               cut \in 0..Len(its), st \in ModStates2} :
           its \in ModItemLists}

ModMetas == {<<>>} \cup {SerializeModuleMeta(ms) : ms \in ModModuleLists}

InitModules ==
    /\ pc = "modules"
    /\ module_meta \in ModMetas
    /\ manifest = <<>>
    /\ modules = <<>>
    /\ mod_i = 0
    /\ IdlePub /\ IdleRes /\ IdleRead /\ IdleCmp /\ IdleCall

NextModules == ExtractModulesNoMeta \/ ModuleBlock \/ ExtractModulesReturn

SpecModules == InitModules /\ [][NextModules]_vars

(***************************************************************************)
(* The modules and items of the metadata, read by element structure: a     *)
(* module's own fields are the children of <module> that precede <items>,  *)
(* an item's own fields the children of its <item>.                        *)
(***************************************************************************)
\* the index of the first token with this tag after index i (i < it)
FirstAfter(doc, tag, i) ==
    CHOOSE j \in (i + 1)..Len(doc) :
        /\ doc[j].tag = tag
        /\ \A l \in (i + 1)..(j - 1) : doc[l].tag # tag

OwnItem(doc, i) ==
    LET children == SubSeq(doc, i + 1, FirstAfter(doc, "/item", i) - 1)
    IN  [title |-> re_search(children, "title"),
         state |-> re_search(children, "workflow_state")]

OwnModule(doc, i) ==
    LET close == FirstAfter(doc, "/module", i)
        open_items == FirstAfter(doc, "items", i)
        I == {j \in open_items..close : doc[j].tag = "item"}
    IN  [position |-> re_search(SubSeq(doc, i + 1, open_items - 1), "position"),
         state |-> re_search(SubSeq(doc, i + 1, open_items - 1), "workflow_state"),
         items |-> [k \in 1..Cardinality(I) |-> OwnItem(doc, KthSmallest(I, k))]]

OwnModules(doc) ==
    LET M == {i \in 1..Len(doc) : doc[i].tag = "module"}
    IN  [k \in 1..Cardinality(M) |-> OwnModule(doc, KthSmallest(M, k))]

\* a workflow state passes the publish predicate (an absent one counts as
\* 'active')
Passes(state) == state = None \/ Strip(Lower(state)) \in {"active", "published", ""}

\* the items of a module that have a title and whose own state passes
PublishedItems(m) == SelectSeq(m.items, LAMBDA it : it.title # None /\ Passes(it.state))

\* the modules read so far
ModulesRead == SubSeq(OwnModules(module_meta), 1, mod_i)

\* the returned module built from m, if any
ReturnedFor(m) == {k \in 1..Len(modules) : modules[k].position = m.position}

\* the titles of the returned items agree with those of the items pub
SameTitles(items, pub) ==
    /\ Len(items) = Len(pub)
    /\ \A n \in 1..Len(pub) :
          /\ items[n].title = Strip(strip_html(pub[n].title))
          /\ items[n].published

(***************************************************************************)
(* C7  extract_modules returns only modules whose own workflow state       *)
(* passes the publish predicate, each holding exactly the titled items of  *)
(* that module whose own state passes it, in their order: a module whose   *)
(* state is "unpublished" is left out whatever its items are, a module     *)
(* with a passing state of its own is returned, and no unpublished item    *)
(* is in any returned item list.                                           *)
(***************************************************************************)
C7_OnlyPublished ==
    pc \in {"modules", "done"} /\ module_meta # <<>> =>
        LET read == ModulesRead
        IN  /\ \A k \in 1..Len(modules) :
                  \E j \in 1..Len(read) :
                      /\ read[j].position = modules[k].position
                      /\ Passes(read[j].state)
                      /\ SameTitles(modules[k].items, PublishedItems(read[j]))
            /\ \A j \in 1..Len(read) :
                  read[j].state # None =>
                      Cardinality(ReturnedFor(read[j]))
                          = IF Passes(read[j].state) THEN 1 ELSE 0

\* an unpublished module with a published item is left out; the published
\* module is returned without its unpublished item
C7_Witness ==
    /\ pc = "done"
    /\ Len(OwnModules(module_meta)) = 2
    /\ OwnModules(module_meta)[1].state = "unpublished"
    /\ \E n \in 1..Len(OwnModules(module_meta)[1].items) :
          Passes(OwnModules(module_meta)[1].items[n].state)
    /\ Len(OwnModules(module_meta)[2].items) = 2
    /\ Len(modules) = 1
    /\ modules[1].position = "2"
    /\ Len(modules[1].items) = 1

(***************************************************************************)
(* C8  In a returned module every item that is not a week header carries   *)
(* the week label of the nearest published week header before it in the    *)
(* same module, and None if there is none: the week context of a module    *)
(* does not reach the next module and an unpublished header opens none.    *)
(***************************************************************************)
\* for each item of pub, whether it is a week header and its week label
Headers(pub) ==
    [n \in 1..Len(pub) |->
        LET wm == week_match(Strip(strip_html(pub[n].title)))
        IN  [is_header |-> wm.ok, week |-> IF wm.ok THEN WeekLabel(wm) ELSE None]]

\* the week of the nearest week header among the first n - 1 items
WeekBefore(hd, n) ==
    LET H == {j \in 1..(n - 1) : hd[j].is_header}
    IN  IF H = {} THEN None ELSE hd[CHOOSE j \in H : \A l \in H : l <= j].week

C8_WeekInheritance ==
    pc \in {"modules", "done"} /\ module_meta # <<>> =>
        LET read == ModulesRead
        IN  \A j \in 1..Len(read) :
                LET hd == Headers(PublishedItems(read[j]))
                IN  \A k \in ReturnedFor(read[j]) :
                        /\ Len(modules[k].items) = Len(hd)
                        /\ \A n \in 1..Len(hd) :
                              /\ modules[k].items[n].is_week_header = hd[n].is_header
                              /\ ~hd[n].is_header =>
                                    modules[k].items[n].week = WeekBefore(hd, n)

\* the first module ends with a week header, the second begins with an item
\* that carries no week
C8_Witness ==
    /\ pc = "done"
    /\ Len(modules) = 2
    /\ Len(modules[1].items) = 2
    /\ modules[1].items[1].week = "Week 2 ^ Intro & Setup"
    /\ modules[1].items[1].is_week_header
    /\ modules[1].items[2].week = "Week 10 ^ Lab"
    /\ modules[1].items[2].is_week_header
    /\ Len(modules[2].items) = 1
    /\ ~modules[2].items[1].is_week_header
    /\ modules[2].items[1].week = None

(***************************************************************************)
(* _fuzzy_match                                                            *)
(***************************************************************************)
STOPWORDS ==
    {"the", "a", "an", "and", "or", "to", "of", "in", "for", "is", "are",
     "will", "be", "able", "that", "this", "their", "its", "by", "at",
     "students", "you", "learners", "participants", "course", "module"}

\* the characters of a word (\w): letters, digits, underscore
IsWordChar(c) == c \in Letters \/ c \in UpperSet \/ IsDigit(c) \/ c = "_"

\* the first index >= j of s that holds no word character (Len(s) + 1 if none)
SkipWordChars(s, j) ==
    LET N == {k \in j..Len(s) : ~IsWordChar(Char(s, k))}
    IN  IF N = {} THEN Len(s) + 1 ELSE CHOOSE k \in N : \A l \in N : k <= l

\* re.findall(r'\b[a-z]{3,}\b', s) as a set: the words of s (maximal runs of
\* word characters) made of at least three letters a-z and nothing else
FindWords(s) ==
    LET starts == {i \in 1..Len(s) :
                      IsWordChar(CharAt(s, i)) /\ (i = 1 \/ ~IsWordChar(CharAt(s, i - 1)))}
        runs == {Slice(s, i, SkipWordChars(s, i) - 1) : i \in starts}
    IN  {w \in runs : Len(w) >= 3 /\ \A k \in 1..Len(w) : CharAt(w, k) \in Letters}

\* words(t)
words(t) == FindWords(Lower(t)) \ STOPWORDS

\* threshold = 0.55, as a percentage
ThresholdPercent == 55

\* mutant: the overlap is divided by the size of the first word set
fuzzy_match_FirstSize(text_a, text_b) ==
    LET wa == words(text_a)
        wb == words(text_b)
    IN  IF wa = {} \/ wb = {} THEN FALSE
        ELSE Cardinality(wa \cap wb) * 100 >= ThresholdPercent * Cardinality(wa)

fuzzy_match(text_a, text_b) ==
    LET wa == words(text_a)
        wb == words(text_b)
        m  == IF Cardinality(wa) < Cardinality(wb) THEN Cardinality(wa) ELSE Cardinality(wb)
    IN  IF wa = {} \/ wb = {} THEN FALSE
        ELSE Cardinality(wa \cap wb) * 100 >= ThresholdPercent * m

(***************************************************************************)
(* compare_objectives                                                      *)
(***************************************************************************)
\* best_idx = None
NoIdx == -1

RECURSIVE FirstFit_IgnoreUsed(_, _, _, _)
\* mutant: a syllabus objective already claimed is not passed over
FirstFit_IgnoreUsed(c_obj, syl, used, i) ==
    IF i >= Len(syl) THEN NoIdx
    ELSE IF fuzzy_match(c_obj.text, syl[i + 1].text) THEN i
    ELSE FirstFit_IgnoreUsed(c_obj, syl, used, i + 1)

\* mutant: the last fitting syllabus objective is taken (no break)
FirstFit_LastFit(c_obj, syl, used, i) ==
    LET J == {j \in i..(Len(syl) - 1) :
                 j \notin used /\ fuzzy_match(c_obj.text, syl[j + 1].text)}
    IN  IF J = {} THEN NoIdx ELSE CHOOSE j \in J : \A l \in J : l <= j

RECURSIVE FirstFit(_, _, _, _)
\* for i, s_obj in enumerate(syllabus_objectives), from index i on: best_idx
FirstFit(c_obj, syl, used, i) ==
    IF i >= Len(syl) THEN NoIdx
    ELSE IF i \in used THEN FirstFit(c_obj, syl, used, i + 1)
    ELSE IF fuzzy_match(c_obj.text, syl[i + 1].text) THEN i
    ELSE FirstFit(c_obj, syl, used, i + 1)

\* one iteration of  for c_obj in course_objectives
CompareCourseObjective ==
    /\ pc = "compare"
    /\ cmp_i < Len(course_objectives)
    /\ LET c_obj == course_objectives[cmp_i + 1]
           best_idx == FirstFit(c_obj, syllabus_objectives, used_syl_idx, 0)
       IN  IF best_idx # NoIdx
           THEN /\ used_syl_idx' = used_syl_idx \cup {best_idx}
                /\ matched' = Append(matched,
                                     [course_obj |-> c_obj,
                                      syl_obj |-> syllabus_objectives[best_idx + 1]])
                /\ course_only' = course_only
           ELSE /\ course_only' = Append(course_only, c_obj)
                /\ UNCHANGED <<used_syl_idx, matched>>
    /\ cmp_i' = cmp_i + 1
    /\ UNCHANGED <<pc, vars_pub, vars_xml, vars_res, archive, vars_wiki, objectives,
                   vars_mod, course_objectives, syllabus_objectives, syllabus_only, vars_call>>

\* syllabus_only = [...] ; return
CompareReturn ==
    /\ pc = "compare"
    /\ cmp_i = Len(course_objectives)
    /\ LET unused == SelectSeq([i \in 1..Len(syllabus_objectives) |-> i - 1],
                               LAMBDA i : i \notin used_syl_idx)
       IN  syllabus_only' = [k \in 1..Len(unused) |-> syllabus_objectives[unused[k] + 1]]
    /\ pc' = "done"
    /\ UNCHANGED <<vars_pub, vars_xml, vars_res, archive, vars_wiki, objectives,
                   vars_mod, course_objectives, syllabus_objectives, matched,
                   course_only, used_syl_idx, cmp_i, vars_call>>

(***************************************************************************)
(* Objective lists given to compare_objectives                             *)
(***************************************************************************)
MaxObj == 2

Objective(text, source) == [text |-> text, source |-> source]

\* word sets: {analyze}, {analyze, financial, statements},
\* {prepare, financial, statements}, {}
CourseObjectivePool ==
    {Objective("You will be able to analyze it", "week-1-overview"),
     Objective("Analyze financial statements", "week-1-overview"),
     Objective("Prepare Financial Statements 101", "[Assignment] Report"),
     Objective("Be able to do it at 10pts or so", "week-1-overview")}

\* word sets: {analyze, financial, statements}, {analyze, market, trends}, {}
SyllabusObjectivePool ==
    {Objective("Analyze financial statements", "[Syllabus]"),
     Objective("Analyze the market trends", "[Syllabus]"),
     Objective("Be able to do it at 10pts or so", "[Syllabus]")}

InitCompare ==
    /\ pc = "compare"
    /\ course_objectives \in SeqsUpTo(CourseObjectivePool, MaxObj)
    /\ syllabus_objectives \in SeqsUpTo(SyllabusObjectivePool, MaxObj)
    /\ matched = <<>>
    /\ course_only = <<>>
    /\ used_syl_idx = {}
    /\ syllabus_only = <<>>
    /\ cmp_i = 0
    /\ IdlePub /\ IdleXml /\ IdleRes /\ IdleRead /\ IdleMod /\ IdleCall

NextCompare == CompareCourseObjective \/ CompareReturn

SpecCompare == InitCompare /\ [][NextCompare]_vars

(***************************************************************************)
(* C9  The result of compare_objectives is a partition of both lists:      *)
(* |matched| + |course_only| = |course_objectives|, |matched| +            *)
(* |syllabus_only| = |syllabus_objectives|, every course objective occurs  *)
(* in the matched pairs and course_only together exactly as often as in    *)
(* course_objectives, and likewise every syllabus objective, so that no    *)
(* syllabus objective is claimed by two course objectives.                 *)
(***************************************************************************)
MatchedCourse == [k \in 1..Len(matched) |-> matched[k].course_obj]

MatchedSyllabus == [k \in 1..Len(matched) |-> matched[k].syl_obj]

\* every element is in parts a and b together as often as in whole
IsPartition(whole, a, b) ==
    /\ Len(a) + Len(b) = Len(whole)
    /\ \A x \in Range(whole) \cup Range(a) \cup Range(b) :
          Count(a, x) + Count(b, x) = Count(whole, x)

C9_Partition ==
    /\ pc = "compare" => Len(matched) + Len(course_only) = cmp_i
    /\ pc = "done" =>
          /\ IsPartition(course_objectives, MatchedCourse, course_only)
          /\ IsPartition(syllabus_objectives, MatchedSyllabus, syllabus_only)
          /\ Cardinality(used_syl_idx) = Len(matched)

\* two equal course objectives and two equal syllabus objectives that all
\* match: two pairs, nothing left over
C9_Witness ==
    /\ pc = "done"
    /\ Len(course_objectives) = 2
    /\ course_objectives[1] = course_objectives[2]
    /\ Len(syllabus_objectives) = 2
    /\ syllabus_objectives[1] = syllabus_objectives[2]
    /\ Len(matched) = 2
    /\ course_only = <<>>
    /\ syllabus_only = <<>>

(***************************************************************************)
(* C10  compare_objectives is greedy first-fit: each step takes the next   *)
(* course objective in list order and pairs it with the lowest-index       *)
(* syllabus objective that is not yet used and fuzzy-matches it, or puts   *)
(* it in course_only if there is none; no step changes an earlier pair,    *)
(* an earlier course_only entry or an earlier claim.  (The number of pairs *)
(* can therefore stay below the largest possible matching: the witness.)   *)
(***************************************************************************)
\* indices (from 0) of the unused syllabus objectives that fuzzy-match c_obj
Fitting(c_obj) ==
    {i \in 0..(Len(syllabus_objectives) - 1) :
        /\ i \notin used_syl_idx
        /\ fuzzy_match(c_obj.text, syllabus_objectives[i + 1].text)}

IsPrefixOf(q, r) == Len(q) <= Len(r) /\ \A k \in 1..Len(q) : q[k] = r[k]

GreedyStep ==
    LET c_obj == course_objectives[cmp_i + 1]
        J == Fitting(c_obj)
        lowest == CHOOSE i \in J : \A l \in J : i <= l
    IN  IF J = {}
        THEN /\ course_only' = Append(course_only, c_obj)
             /\ matched' = matched
             /\ used_syl_idx' = used_syl_idx
        ELSE /\ course_only' = course_only
             /\ matched' = Append(matched,
                                  [course_obj |-> c_obj,
                                   syl_obj |-> syllabus_objectives[lowest + 1]])
             /\ used_syl_idx' = used_syl_idx \cup {lowest}

C10_GreedyFirstFit ==
    [][/\ cmp_i' # cmp_i => cmp_i' = cmp_i + 1 /\ GreedyStep
       /\ IsPrefixOf(matched, matched')
       /\ IsPrefixOf(course_only, course_only')
       /\ used_syl_idx \subseteq used_syl_idx']_vars

\* the first course objective took the only syllabus objective the second
\* one matches, though it matches the other one too: one pair where two
\* are possible
C10_Witness ==
    /\ pc = "done"
    /\ Len(course_objectives) = 2
    /\ Len(syllabus_objectives) = 2
    /\ fuzzy_match(course_objectives[1].text, syllabus_objectives[2].text)
    /\ fuzzy_match(course_objectives[2].text, syllabus_objectives[1].text)
    /\ Len(matched) = 1
    /\ matched[1].course_obj = course_objectives[1]
    /\ matched[1].syl_obj = syllabus_objectives[1]
    /\ course_only = <<course_objectives[2]>>
    /\ syllabus_only = <<syllabus_objectives[2]>>

(***************************************************************************)
(* Calls of _fuzzy_match                                                   *)
(***************************************************************************)
MaxWords == 2

\* three words that count, a stopword, and a token that is no word of letters
FuzzyVocabulary == {"analyze", "Data", "costs", "the", "x9y"}

RECURSIVE JoinWords(_)
\* ' '.join(ws)
JoinWords(ws) ==
    IF ws = <<>> THEN ""
    ELSE IF Len(ws) = 1 THEN ws[1]
    ELSE ws[1] \o " " \o JoinWords(Tail(ws))

FuzzyTexts == {JoinWords(ws) : ws \in SeqsUpTo(FuzzyVocabulary, MaxWords)}

InitFuzzy ==
    /\ pc = "fuzzy"
    /\ call_args \in FuzzyTexts \X FuzzyTexts
    /\ call_result = "?"
    /\ IdlePub /\ IdleXml /\ IdleRes /\ IdleRead /\ IdleMod /\ IdleCmp

\* _fuzzy_match(text_a, text_b)
FuzzyMatchCall ==
    /\ pc = "fuzzy"
    /\ call_result' = fuzzy_match(call_args[1], call_args[2])
    /\ pc' = "done"
    /\ UNCHANGED <<vars_pub, vars_xml, vars_res, archive, vars_wiki, objectives,
                   vars_mod, vars_cmp, call_args>>

NextFuzzy == FuzzyMatchCall

SpecFuzzy == InitFuzzy /\ [][NextFuzzy]_vars

(***************************************************************************)
(* C11  _fuzzy_match is symmetric: the result for (A, B) is the result for *)
(* (B, A); if the filtered word set of A or of B is empty, it is false.    *)
(***************************************************************************)
C11_FuzzySymmetric ==
    pc = "done" =>
        /\ call_result = fuzzy_match(call_args[2], call_args[1])
        /\ words(call_args[1]) = {} \/ words(call_args[2]) = {} => call_result = FALSE

\* word sets of different sizes that match
C11_Witness ==
    /\ pc = "done"
    /\ Cardinality(words(call_args[1])) = 1
    /\ Cardinality(words(call_args[2])) = 2
    /\ call_result = TRUE

(***************************************************************************)
(* Calls of strip_html                                                     *)
(***************************************************************************)
MaxPieces == 3

\* pieces of markup: entities, the tail of an entity, a tag, plain text
HtmlPieces == {"&amp;", "&lt;", "&gt;", "lt;", "b", " x", "<b>"}

RECURSIVE ConcatText(_)
\* ''.join(ps)
ConcatText(ps) == IF ps = <<>> THEN "" ELSE ps[1] \o ConcatText(Tail(ps))

HtmlFragments == {ConcatText(ps) : ps \in SeqsUpTo(HtmlPieces, MaxPieces)}

InitStrip ==
    /\ pc = "strip"
    /\ call_args \in {<<x>> : x \in HtmlFragments}
    /\ call_result = "?"
    /\ IdlePub /\ IdleXml /\ IdleRes /\ IdleRead /\ IdleMod /\ IdleCmp

\* strip_html(html_content)
StripHtmlCall ==
    /\ pc = "strip"
    /\ call_result' = strip_html(call_args[1])
    /\ pc' = "done"
    /\ UNCHANGED <<vars_pub, vars_xml, vars_res, archive, vars_wiki, objectives,
                   vars_mod, vars_cmp, call_args>>

NextStrip == StripHtmlCall

SpecStrip == InitStrip /\ [][NextStrip]_vars

(***************************************************************************)
(* C12  strip_html is idempotent: applied to its own result it returns     *)
(* that result.  (Refuted: entities are decoded after the tags are         *)
(* removed, so an escaped tag or an escaped entity comes out as a tag or   *)
(* an entity, which a second application removes or decodes.)              *)
(***************************************************************************)
C12_Idempotent == pc = "done" => strip_html(call_result) = call_result

(***************************************************************************)
(* Calls of detect_blooms_level                                            *)
(***************************************************************************)
\* the texts of the calls: at most MaxBloomsWords of the vocabulary, joined
\* by spaces
MaxBloomsWords == 2

\* verbs of four levels in either case and with punctuation, words that hold
\* a verb without being one, and a word that holds none
BloomsVocabulary ==
    {"analyze", "Design", "list,", "(EVALUATE)", "redesign", "listing", "use_case", "data"}

BloomsTexts == {JoinWords(ws) : ws \in SeqsUpTo(BloomsVocabulary, MaxBloomsWords)}

InitBlooms ==
    /\ pc = "blooms"
    /\ call_args \in {<<t>> : t \in BloomsTexts}
    /\ call_result = "?"
    /\ IdlePub /\ IdleXml /\ IdleRes /\ IdleRead /\ IdleMod /\ IdleCmp

DetectBloomsCall ==
    /\ pc = "blooms"
    /\ call_result' = detect_blooms_level(call_args[1])
    /\ pc' = "done"
    /\ UNCHANGED <<vars_pub, vars_xml, vars_res, archive, vars_wiki, objectives,
                   vars_mod, vars_cmp, call_args>>

NextBlooms == DetectBloomsCall

SpecBlooms == InitBlooms /\ [][NextBlooms]_vars

\* the words of s: its maximal runs of word characters
WordRuns(s) ==
    {Slice(s, i, SkipWordChars(s, i) - 1) :
        i \in {j \in 1..Len(s) :
                  IsWordChar(CharAt(s, j)) /\ (j = 1 \/ ~IsWordChar(CharAt(s, j - 1)))}}

\* the levels one of whose verbs is a word of the text, whatever its case
LevelsOf(text) ==
    {i \in 1..Len(level_order) :
        \E e \in Range(BLOOMS_VERBS) :
            /\ e.level = level_order[i]
            /\ Range(e.verbs) \cap WordRuns(Lower(text)) # {}}

\* C15: detect_blooms_level returns the highest level, in the order Remember <
\* Understand < Apply < Analyze < Evaluate < Create, one of whose verbs is a
\* whole word of the text in any case, and "Unclear" when no level has one; a
\* text with an Analyze verb and a Create verb yields Create.
C15_HighestLevel ==
    pc = "done" =>
        LET L == LevelsOf(call_args[1])
        IN  /\ L = {} => call_result = "Unclear"
            /\ L # {} => /\ call_result \in Range(level_order)
                         /\ LevelIndex(call_result) \in L
                         /\ \A i \in L : i <= LevelIndex(call_result)
            /\ {4, 6} \subseteq L => call_result = "Create"

C15_Witness ==
    /\ pc = "done"
    /\ call_args[1] = "analyze Design"
    /\ LevelsOf(call_args[1]) = {4, 6}
    /\ call_result = "Create"

(***************************************************************************)
(* Calls of _classify_obj_type                                             *)
(***************************************************************************)
\* the calls: a source label, and a text of at most MaxPhrases phrases
MaxPhrases == 2

ClassifySources ==
    {"[Syllabus]", "[Assignment] Welcome Post", "[Assignment] Essay",
     "[Assignment] Module 2 quiz", "week-3-notes", "course-overview",
     "module-2-goals", "mlo-list", "misc-page"}

ClassifyPhrases ==
    {"CLO 1:", "mlo-2", "closing", "By the end of this course",
     "by the end of  this module", "module objective", "analyze data"}

ClassifyTexts == {JoinWords(ws) : ws \in SeqsUpTo(ClassifyPhrases, MaxPhrases)}

InitClassify ==
    /\ pc = "classify"
    /\ call_args \in ClassifySources \X ClassifyTexts
    /\ call_result = "?"
    /\ IdlePub /\ IdleXml /\ IdleRes /\ IdleRead /\ IdleMod /\ IdleCmp

ClassifyCall ==
    /\ pc = "classify"
    /\ call_result' = classify_obj_type(call_args[1], call_args[2])
    /\ pc' = "done"
    /\ UNCHANGED <<vars_pub, vars_xml, vars_res, archive, vars_wiki, objectives,
                   vars_mod, vars_cmp, call_args>>

NextClassify == ClassifyCall

SpecClassify == InitClassify /\ [][NextClassify]_vars

\* the rules (a) .. (g) in the order of the claim, (a) with its CLO label
\* before its MLO label: whether each holds of the call, and its verdict
RuleHolds(source_label, text) ==
    LET src == Lower(source_label)
        txt == Lower(text)
    IN  << HasCloLabel(src, txt), HasMloLabel(src, txt), IsSyllabusSource(src),
           HasEndOfCourse(txt), HasEndOfModule(txt), IsCoursePage(src),
           HasModuleNumber(src), IsAssignmentSource(src) >>

RuleVerdict == <<"CLO", "MLO", "CLO", "CLO", "MLO", "CLO", "MLO", "MLO">>

\* C14: _classify_obj_type returns the verdict of the first rule that holds,
\* in the order (a) explicit label, (b) syllabus source, (c) end-of-course
\* phrasing, (d) end-of-module phrasing, (e) course-level page keyword,
\* (f) module number token, (g) assignment source, and "unknown" if none
\* holds; an assignment whose name holds a course-level keyword and that no
\* earlier rule decides is CLO.
C14_FirstRuleWins ==
    pc = "done" =>
        LET holds == RuleHolds(call_args[1], call_args[2])
            H     == {i \in 1..Len(holds) : holds[i]}
        IN  /\ H = {} => call_result = "unknown"
            /\ \A i \in H : (\A j \in H : i <= j) => call_result = RuleVerdict[i]
            /\ (call_args[1] = "[Assignment] Welcome Post" /\ \A i \in 1..5 : ~holds[i])
                   => call_result = "CLO"

C14_Witness ==
    /\ pc = "done"
    /\ call_args = <<"[Assignment] Welcome Post", "analyze data">>
    /\ RuleHolds(call_args[1], call_args[2])
           = <<FALSE, FALSE, FALSE, FALSE, FALSE, TRUE, FALSE, TRUE>>
    /\ call_result = "CLO"

(***************************************************************************)
(* calculate_health_score                                                  *)
(***************************************************************************)
\* the emoji that begin the status texts, each written as one ASCII
\* character: U+2705, U+26A0 U+FE0F, U+274C, U+1F50D
CheckMark == "+"
WarningSign == "!"
CrossMark == "#"
Magnifier == "?"

StatusMet == CheckMark \o " Met"
StatusPartiallyMet == WarningSign \o " Partially Met"
StatusNotMet == CrossMark \o " Not Met"
StatusNeedsReview == Magnifier \o " Needs Human Review"

RecPass == "PASS " \o EmDash \o " This course is in strong shape. Targeted refinements only."
RecReview == "REVIEW " \o EmDash \o " Good foundation with targeted areas to improve."
RecRedesign == "REDESIGN " \o EmDash \o " Significant alignment and design work recommended."

\* sum(1 for v in qm_results.values() if v[0].startswith(glyph)); values is
\* the sequence of the dict's values, each a pair (status, note)
CountStartingWith(values, glyph) ==
    Cardinality({i \in 1..Len(values) : StartsWith(values[i][1], glyph)})

\* mutant: PASS does not require that no standard is Not Met
calculate_health_score_AnyNotMet(values) ==
    LET met     == CountStartingWith(values, CheckMark)
        partial == CountStartingWith(values, WarningSign)
        not_met == CountStartingWith(values, CrossMark)
        review  == CountStartingWith(values, Magnifier)
        total   == Len(values)
        rec     == IF 4 * met >= 3 * total THEN RecPass
                   ELSE IF not_met <= 2 /\ 2 * met >= total THEN RecReview
                   ELSE RecRedesign
    IN  <<met, partial, not_met, review, rec>>

\* calculate_health_score(qm_results); met >= total*0.75 is 4*met >= 3*total
\* and met >= total*0.5 is 2*met >= total
calculate_health_score(values) ==
    LET met     == CountStartingWith(values, CheckMark)
        partial == CountStartingWith(values, WarningSign)
        not_met == CountStartingWith(values, CrossMark)
        review  == CountStartingWith(values, Magnifier)
        total   == Len(values)
        rec     == IF 4 * met >= 3 * total /\ not_met = 0 THEN RecPass
                   ELSE IF not_met <= 2 /\ 2 * met >= total THEN RecReview
                   ELSE RecRedesign
    IN  <<met, partial, not_met, review, rec>>

\* the calls: the values of a dict of at most MaxStandards entries, each
\* with one of the four statuses of run_qm_precheck; entries of the same
\* status are taken together
MaxStandards == 13

Statuses == <<StatusMet, StatusPartiallyMet, StatusNotMet, StatusNeedsReview>>

\* n[k] values of status k, for k = 1..4
ValuesWith(n) ==
    [i \in 1..(n[1] + n[2] + n[3] + n[4]) |->
        <<Statuses[IF i <= n[1] THEN 1
                   ELSE IF i <= n[1] + n[2] THEN 2
                   ELSE IF i <= n[1] + n[2] + n[3] THEN 3 ELSE 4], "">>]

HealthInputs ==
    {ValuesWith(n) : n \in {c \in [1..4 -> 0..MaxStandards] :
                               c[1] + c[2] + c[3] + c[4] <= MaxStandards}}

InitHealth ==
    /\ pc = "health"
    /\ call_args \in {<<v>> : v \in HealthInputs}
    /\ call_result = "?"
    /\ IdlePub /\ IdleXml /\ IdleRes /\ IdleRead /\ IdleMod /\ IdleCmp

HealthScoreCall ==
    /\ pc = "health"
    /\ call_result' = calculate_health_score(call_args[1])
    /\ pc' = "done"
    /\ UNCHANGED <<vars_pub, vars_xml, vars_res, archive, vars_wiki, objectives,
                   vars_mod, vars_cmp, call_args>>

NextHealth == HealthScoreCall

SpecHealth == InitHealth /\ [][NextHealth]_vars

\* the number of values whose status is st
NumberOf(values, st) == Cardinality({i \in 1..Len(values) : values[i][1] = st})

\* C20: the recommendation is PASS iff Met >= 75% of the standards and none is
\* Not Met; otherwise REVIEW iff at most two are Not Met and Met >= 50% of the
\* standards; otherwise REDESIGN, whatever the Partially Met and Needs Review
\* counts; 13 standards with 10 Met, 1 Partially Met and 2 Not Met give
\* REVIEW; the four counts returned sum to the number of standards.
C20_HealthTiers ==
    pc = "done" =>
        LET total   == Len(call_args[1])
            met     == NumberOf(call_args[1], StatusMet)
            partial == NumberOf(call_args[1], StatusPartiallyMet)
            not_met == NumberOf(call_args[1], StatusNotMet)
            pass    == 4 * met >= 3 * total /\ not_met = 0
            review  == ~pass /\ not_met <= 2 /\ 2 * met >= total
            rec     == call_result[5]
        IN  /\ StartsWith(rec, "PASS") <=> pass
            /\ StartsWith(rec, "REVIEW") <=> review
            /\ StartsWith(rec, "REDESIGN") <=> ~pass /\ ~review
            /\ (total = 13 /\ met = 10 /\ partial = 1 /\ not_met = 2)
                   => StartsWith(rec, "REVIEW")
            /\ call_result[1] + call_result[2] + call_result[3] + call_result[4] = total

C20_Witness ==
    /\ pc = "done"
    /\ Len(call_args[1]) = 13
    /\ NumberOf(call_args[1], StatusMet) = 10
    /\ NumberOf(call_args[1], StatusPartiallyMet) = 1
    /\ NumberOf(call_args[1], StatusNotMet) = 2
    /\ call_result = <<10, 1, 2, 0, RecReview>>

(***************************************************************************)
(* run_qm_precheck, run_udl_precheck                                       *)
(*                                                                         *)
(* A dict is the sequence of its <<key, value>> pairs in insertion order.  *)
(***************************************************************************)
\* QM_STANDARDS: its keys, in order
QM_STANDARDS ==
    <<"1.1", "1.2", "2.1", "2.2", "2.3", "3.1", "3.2", "4.1", "5.1", "5.2",
      "6.1", "7.1", "8.1">>

\* d.values()
Values(d) == [i \in 1..Len(d) |-> d[i][2]]

RECURSIVE Join(_, _)
\* sep.join(ss)
Join(sep, ss) ==
    IF ss = <<>> THEN ""
    ELSE IF Len(ss) = 1 THEN ss[1]
    ELSE ss[1] \o sep \o Join(sep, Tail(ss))

\* any(w in s for w in ws)
AnyIn(ws, s) == \E i \in 1..Len(ws) : Contains(s, ws[i])

\* sum([b1, b2, ...])
CountTrue(bs) == Cardinality({i \in 1..Len(bs) : bs[i]})

\* check(key, met_c, met_n, par_c, par_n, fail_n): the entry it sets
check(key, met_c, met_n, par_c, par_n, fail_n) ==
    IF met_c THEN <<key, <<StatusMet, met_n>>>>
    ELSE IF par_c THEN <<key, <<StatusPartiallyMet, par_n>>>>
    ELSE <<key, <<StatusNotMet, fail_n>>>>

RECURSIVE ModContent(_, _, _)
\* the lowercased content of the pages of wiki_full, from the i-th on, whose name holds
\* one of mod_words
ModContent(pages, mod_words, i) ==
    IF i > Len(pages) THEN ""
    ELSE (IF \E w \in mod_words : Contains(Lower(pages[i][1]), w)
          THEN Lower(pages[i][2]) ELSE "")
         \o ModContent(pages, mod_words, i + 1)

\* for mod in modules: ... mods_with_obj += 1
ModsWithObj(data, the_modules) ==
    LET obj_kw == <<"objective", "by the end", "you will", "students will", "upon completion">>
    IN  Cardinality({m \in 1..Len(the_modules) :
            AnyIn(obj_kw, ModContent(data.wiki_full, LongWords(Lower(the_modules[m].title)), 1))})

\* the assessment types found
AssessmentTypes(data, all_assign) ==
    (IF AnyIn(<<"discussion", "respond", "reply", "post">>, all_assign)
     THEN <<"Discussion">> ELSE <<>>)
    \o (IF data.assessments # <<>> THEN <<"Quiz/Assessment">> ELSE <<>>)
    \o (IF AnyIn(<<"essay", "paper", "write", "reflection", "journal">>, all_assign)
        THEN <<"Written/Reflective">> ELSE <<>>)
    \o (IF AnyIn(<<"project", "present", "create", "design", "build", "produce">>, all_assign)
        THEN <<"Project/Creative">> ELSE <<>>)
    \o (IF AnyIn(<<"peer", "classmate">>, all_assign) THEN <<"Peer Activity">> ELSE <<>>)

\* mutant: standard 2.3 is judged by check also when there are no objectives
run_qm_precheck_NoReview(data, the_modules, grading_groups, the_objectives) ==
    LET all_wiki    == Lower(Join(" ", Values(data.wiki_full)))
        all_assign  == Lower(Join(" ", [i \in 1..Len(data.assignments) |->
                                           data.assignments[i][2].instructions]))
        all_content == all_wiki \o " " \o all_assign
        has_welcome == \E i \in 1..Len(data.wiki_full) :
                           AnyIn(<<"welcome", "introduction", "overview", "the-right-stuff",
                                   "start-here">>, Lower(data.wiki_full[i][1]))
        has_contact == AnyIn(<<"instructor", "professor", "office hours", "email">>, all_content)
        has_expect  == AnyIn(<<"netiquette", "expectation", "participation", "late policy",
                               "academic integrity", "community">>, all_content)
        n           == Len(the_objectives)
        total_mods  == Len(the_modules)
        mods_with_obj == ModsWithObj(data, the_modules)
        unclear     == Cardinality({i \in 1..Len(the_objectives) : the_objectives[i].blooms = "Unclear"})
        has_rubrics == Len(data.rubrics) > 100
        has_assigns == Len(data.assignments) > 0
        types       == AssessmentTypes(data, all_assign)
        mc          == Len(data.wiki_titles)
        cc          == Len(data.wiki_full)
        has_disc    == AnyIn(<<"discussion", "respond", "reply">>, all_content)
        has_refl    == AnyIn(<<"reflect", "journal">>, all_content)
        has_active  == AnyIn(<<"create", "analyze", "design", "solve", "apply", "build">>,
                             all_content)
        ac          == CountTrue(<<has_disc, has_refl, has_active>>)
        has_peer    == AnyIn(<<"peer", "classmate", "group", "team", "collaborate">>, all_content)
        has_inst    == AnyIn(<<"instructor", "professor", "office hours", "feedback">>,
                             all_content)
        has_tech    == AnyIn(<<"browser", "technology", "computer", "internet", "tool",
                               "canvas", "login", "access">>, all_content)
        has_a11y    == AnyIn(<<"accessibility", "ada", "accommodation", "disability",
                               "caption", "alt text", "508">>, all_content)
        has_start   == \E i \in 1..Len(data.wiki_full) :
                           AnyIn(<<"start-here", "getting-started", "the-right-stuff",
                                   "module-1">>, Lower(data.wiki_full[i][1]))
        ratio       == DecimalStr(mods_with_obj) \o "/" \o DecimalStr(total_mods)
        lack        == DecimalStr(unclear) \o "/" \o DecimalStr(Len(the_objectives))
    IN  << check("1.1", has_welcome /\ has_contact,
                 "Welcome/overview and instructor info detected",
                 has_welcome \/ has_contact, "Welcome page or contact info may be incomplete",
                 "No clear overview or instructor info"),
           check("1.2", has_expect /\ Len(the_modules) > 0,
                 "Expectations and module structure present",
                 has_expect \/ Len(the_modules) > 0, "Partial expectations found",
                 "Learner expectations not clearly articulated"),
           check("2.1", n >= 3, DecimalStr(n) \o " objectives detected",
                 n >= 1, "Only " \o DecimalStr(n) \o " objective(s) clearly detected",
                 "No objectives detected " \o EmDash \o " likely in external syllabus"),
           IF total_mods = 0
           THEN <<"2.2", <<StatusNeedsReview, "Module structure not parseable">>>>
           ELSE check("2.2", 10 * mods_with_obj >= 7 * total_mods,
                      "Objectives in ~" \o ratio \o " modules",
                      mods_with_obj > 0,
                      "Only ~" \o ratio \o " modules have clear objectives",
                      "Module objectives not detected"),
           check("2.3", unclear = 0, "All objectives use Bloom's verbs",
                 unclear < Len(the_objectives) \div 2, lack \o " lack clear verbs",
                 lack \o " use vague language"),
           check("3.1", has_rubrics /\ has_assigns, "Assignments and rubrics both present",
                 has_assigns, "Assignments found but rubrics minimal",
                 "Limited assessment data"),
           check("3.2", Len(types) >= 3, "Types: " \o Join(", ", types),
                 Len(types) = 2, "Only: " \o Join(", ", types), "Very limited variety"),
           check("4.1", mc > 0 /\ cc > 0,
                 DecimalStr(mc) \o " media items and " \o DecimalStr(cc) \o " content pages",
                 cc > 0, "Content pages found but media may be limited",
                 "Material alignment unclear"),
           check("5.1", ac >= 3, "Discussion, reflection, and active tasks all detected",
                 ac = 2, "Some active learning present", "Limited active learning detected"),
           check("5.2", has_peer /\ has_inst, "Peer and instructor interaction both present",
                 has_peer \/ has_inst, "Some interaction present",
                 "No clear interaction opportunities"),
           IF has_tech THEN <<"6.1", <<StatusMet, "Technology references found">>>>
           ELSE <<"6.1", <<StatusPartiallyMet,
                           "Technology requirements may not be clearly stated">>>>,
           IF has_a11y THEN <<"7.1", <<StatusMet, "Accessibility language detected">>>>
           ELSE <<"7.1", <<StatusPartiallyMet, "Accessibility statements may be missing">>>>,
           check("8.1", Len(the_modules) > 0 /\ has_start,
                 DecimalStr(Len(the_modules)) \o " published modules with start page",
                 Len(the_modules) > 0, "Modules found but \"Start Here\" page may be missing",
                 "Course navigation unclear") >>

\* run_qm_precheck(data, modules, grading_groups, objectives): results;
\* pct >= 0.7 is 10*mods_with_obj >= 7*total_mods
run_qm_precheck(data, the_modules, grading_groups, the_objectives) ==
    LET all_wiki    == Lower(Join(" ", Values(data.wiki_full)))
        all_assign  == Lower(Join(" ", [i \in 1..Len(data.assignments) |->
                                           data.assignments[i][2].instructions]))
        all_content == all_wiki \o " " \o all_assign
        has_welcome == \E i \in 1..Len(data.wiki_full) :
                           AnyIn(<<"welcome", "introduction", "overview", "the-right-stuff",
                                   "start-here">>, Lower(data.wiki_full[i][1]))
        has_contact == AnyIn(<<"instructor", "professor", "office hours", "email">>, all_content)
        has_expect  == AnyIn(<<"netiquette", "expectation", "participation", "late policy",
                               "academic integrity", "community">>, all_content)
        n           == Len(the_objectives)
        total_mods  == Len(the_modules)
        mods_with_obj == ModsWithObj(data, the_modules)
        unclear     == Cardinality({i \in 1..Len(the_objectives) : the_objectives[i].blooms = "Unclear"})
        has_rubrics == Len(data.rubrics) > 100
        has_assigns == Len(data.assignments) > 0
        types       == AssessmentTypes(data, all_assign)
        mc          == Len(data.wiki_titles)
        cc          == Len(data.wiki_full)
        has_disc    == AnyIn(<<"discussion", "respond", "reply">>, all_content)
        has_refl    == AnyIn(<<"reflect", "journal">>, all_content)
        has_active  == AnyIn(<<"create", "analyze", "design", "solve", "apply", "build">>,
                             all_content)
        ac          == CountTrue(<<has_disc, has_refl, has_active>>)
        has_peer    == AnyIn(<<"peer", "classmate", "group", "team", "collaborate">>, all_content)
        has_inst    == AnyIn(<<"instructor", "professor", "office hours", "feedback">>,
                             all_content)
        has_tech    == AnyIn(<<"browser", "technology", "computer", "internet", "tool",
                               "canvas", "login", "access">>, all_content)
        has_a11y    == AnyIn(<<"accessibility", "ada", "accommodation", "disability",
                               "caption", "alt text", "508">>, all_content)
        has_start   == \E i \in 1..Len(data.wiki_full) :
                           AnyIn(<<"start-here", "getting-started", "the-right-stuff",
                                   "module-1">>, Lower(data.wiki_full[i][1]))
        ratio       == DecimalStr(mods_with_obj) \o "/" \o DecimalStr(total_mods)
        lack        == DecimalStr(unclear) \o "/" \o DecimalStr(Len(the_objectives))
    IN  << check("1.1", has_welcome /\ has_contact,
                 "Welcome/overview and instructor info detected",
                 has_welcome \/ has_contact, "Welcome page or contact info may be incomplete",
                 "No clear overview or instructor info"),
           check("1.2", has_expect /\ Len(the_modules) > 0,
                 "Expectations and module structure present",
                 has_expect \/ Len(the_modules) > 0, "Partial expectations found",
                 "Learner expectations not clearly articulated"),
           check("2.1", n >= 3, DecimalStr(n) \o " objectives detected",
                 n >= 1, "Only " \o DecimalStr(n) \o " objective(s) clearly detected",
                 "No objectives detected " \o EmDash \o " likely in external syllabus"),
           IF total_mods = 0
           THEN <<"2.2", <<StatusNeedsReview, "Module structure not parseable">>>>
           ELSE check("2.2", 10 * mods_with_obj >= 7 * total_mods,
                      "Objectives in ~" \o ratio \o " modules",
                      mods_with_obj > 0,
                      "Only ~" \o ratio \o " modules have clear objectives",
                      "Module objectives not detected"),
           IF the_objectives = <<>>
           THEN <<"2.3", <<StatusNeedsReview, "No objectives to evaluate">>>>
           ELSE check("2.3", unclear = 0, "All objectives use Bloom's verbs",
                      unclear < Len(the_objectives) \div 2, lack \o " lack clear verbs",
                      lack \o " use vague language"),
           check("3.1", has_rubrics /\ has_assigns, "Assignments and rubrics both present",
                 has_assigns, "Assignments found but rubrics minimal",
                 "Limited assessment data"),
           check("3.2", Len(types) >= 3, "Types: " \o Join(", ", types),
                 Len(types) = 2, "Only: " \o Join(", ", types), "Very limited variety"),
           check("4.1", mc > 0 /\ cc > 0,
                 DecimalStr(mc) \o " media items and " \o DecimalStr(cc) \o " content pages",
                 cc > 0, "Content pages found but media may be limited",
                 "Material alignment unclear"),
           check("5.1", ac >= 3, "Discussion, reflection, and active tasks all detected",
                 ac = 2, "Some active learning present", "Limited active learning detected"),
           check("5.2", has_peer /\ has_inst, "Peer and instructor interaction both present",
                 has_peer \/ has_inst, "Some interaction present",
                 "No clear interaction opportunities"),
           IF has_tech THEN <<"6.1", <<StatusMet, "Technology references found">>>>
           ELSE <<"6.1", <<StatusPartiallyMet,
                           "Technology requirements may not be clearly stated">>>>,
           IF has_a11y THEN <<"7.1", <<StatusMet, "Accessibility language detected">>>>
           ELSE <<"7.1", <<StatusPartiallyMet, "Accessibility statements may be missing">>>>,
           check("8.1", Len(the_modules) > 0 /\ has_start,
                 DecimalStr(Len(the_modules)) \o " published modules with start page",
                 Len(the_modules) > 0, "Modules found but \"Start Here\" page may be missing",
                 "Course navigation unclear") >>

\* str(b) of a bool
BoolStr(b) == IF b THEN "True" ELSE "False"

\* run_udl_precheck(data): results
run_udl_precheck(data) ==
    LET all_content  == Lower(Join(" ", Values(data.wiki_full)) \o " "
                              \o Join(" ", [i \in 1..Len(data.assignments) |->
                                               data.assignments[i][2].instructions]))
        media_titles == Lower(Join(" ", data.wiki_titles))
        has_video    == AnyIn(<<"video", "youtube", "playposit">>, media_titles)
        has_reading  == AnyIn(<<"read", "article", "chapter", "text">>, all_content)
        has_audio    == AnyIn(<<"podcast", "audio">>, media_titles)
        has_visual   == AnyIn(<<"infographic", "diagram", "image", "chart">>, all_content)
        rc           == CountTrue(<<has_video, has_reading, has_audio, has_visual>>)
        has_choice   == AnyIn(<<"choose", "select", "option", "your choice">>, all_content)
        has_relevance == AnyIn(<<"real-world", "your experience", "community">>, all_content)
        has_challenge == AnyIn(<<"challenge", "stretch", "advanced", "extension">>, all_content)
        ec           == CountTrue(<<has_choice, has_relevance, has_challenge>>)
        has_written  == AnyIn(<<"essay", "paper", "write", "journal", "response">>, all_content)
        has_verbal   == AnyIn(<<"present", "speech", "record", "video", "oral">>, all_content)
        has_visual_e == AnyIn(<<"infographic", "poster", "create", "design", "build">>,
                              all_content)
        has_collab   == AnyIn(<<"group", "team", "peer", "collaborate">>, all_content)
        ae           == CountTrue(<<has_written, has_verbal, has_visual_e, has_collab>>)
    IN  << <<"representation",
             IF rc >= 3
             THEN <<StatusMet, "video=" \o BoolStr(has_video) \o ", reading="
                               \o BoolStr(has_reading) \o ", audio=" \o BoolStr(has_audio)
                               \o ", visual=" \o BoolStr(has_visual)>>
             ELSE IF rc = 2
             THEN <<StatusPartiallyMet, "Only " \o DecimalStr(rc) \o " representation formats">>
             ELSE <<StatusNotMet, "Limited content format variety">> >>,
           <<"engagement",
             IF ec >= 2 THEN <<StatusMet, "Choice, relevance, and/or challenge detected">>
             ELSE IF ec = 1 THEN <<StatusPartiallyMet, "Some engagement strategies">>
             ELSE <<StatusNotMet, "Limited engagement strategies">> >>,
           <<"action_expression",
             IF ae >= 3
             THEN <<StatusMet, "written=" \o BoolStr(has_written) \o ", verbal="
                               \o BoolStr(has_verbal) \o ", visual=" \o BoolStr(has_visual_e)
                               \o ", collab=" \o BoolStr(has_collab)>>
             ELSE IF ae = 2 THEN <<StatusPartiallyMet, "Some expression variety">>
             ELSE <<StatusNotMet, "Limited ways to demonstrate learning">> >> >>

\* the calls: a record as read_imscc returns it (the fields the prechecks
\* read), at most MaxQmModules modules and at most MaxQmObjectives objectives
MaxQmModules == 2
MaxQmObjectives == 4

\* the sub-sequences of q
RECURSIVE SubSeqsOf(_)
SubSeqsOf(q) ==
    IF q = <<>> THEN {<<>>}
    ELSE LET rest == SubSeqsOf(Tail(q))
         IN  rest \cup {<<Head(q)>> \o r : r \in rest}

QmPagePool ==
    << <<"welcome-start-here",
         "Contact your Instructor by email. Participation is an expectation. Read the chapter.">>,
       <<"module-1-objectives",
         "Students will reflect, discuss and respond in a group. Choose a diagram in your browser; captions help accessibility.">> >>

QmAssignmentPool ==
    << <<"Essay", [instructions |-> "Write an essay and reply to a classmate."]>>,
       <<"Project", [instructions |-> "Design a real-world team project and present it."]>> >>

\* a text of n characters
RECURSIVE Filler(_)
Filler(n) ==
    IF n = 0 THEN ""
    ELSE IF n = 1 THEN "r"
    ELSE Filler(n \div 2) \o Filler(n - n \div 2)

\* rubrics, assessments and wiki_titles: none; a rubric file too short to
\* count and a media page; a rubric file, a quiz and media pages
QmExtras ==
    { [rubrics |-> "", assessments |-> <<>>, wiki_titles |-> <<>>],
      [rubrics |-> Filler(100), assessments |-> <<>>, wiki_titles |-> <<"intro-video">>],
      [rubrics |-> Filler(101), assessments |-> << <<"Quiz 1", "Question 1">> >>,
       wiki_titles |-> <<"intro-video", "podcast-1">>] }

QmData ==
    { [wiki_full |-> w, assignments |-> a, rubrics |-> e.rubrics,
       assessments |-> e.assessments, wiki_titles |-> e.wiki_titles] :
        w \in SubSeqsOf(QmPagePool), a \in SubSeqsOf(QmAssignmentPool), e \in QmExtras }

QmModuleTitles == {"Module 1 Objectives", "Week Two | Research"}

QmModules ==
    { [i \in 1..Len(ts) |-> [title |-> ts[i]]] :
        ts \in UNION {DistinctSeqsOfLen(QmModuleTitles, k) : k \in 0..MaxQmModules} }

\* u objectives without a Bloom's verb, then k - u with one
QmObjectives ==
    UNION { { [i \in 1..k |-> [blooms |-> IF i <= u THEN "Unclear" ELSE "Apply"]] :
                u \in 0..k } : k \in 0..MaxQmObjectives }

InitPrecheck ==
    /\ pc = "qm"
    /\ call_args \in {<<d, m, <<>>, o>> : d \in QmData, m \in QmModules, o \in QmObjectives}
    /\ call_result = <<>>
    /\ IdlePub /\ IdleXml /\ IdleRes /\ IdleRead /\ IdleMod /\ IdleCmp

\* qm_results = run_qm_precheck(data, modules, grading_groups, objectives)
RunQmPrecheck ==
    /\ pc = "qm"
    /\ call_result' = <<run_qm_precheck(call_args[1], call_args[2], call_args[3],
                                        call_args[4])>>
    /\ pc' = "udl"
    /\ UNCHANGED <<vars_pub, vars_xml, vars_res, archive, vars_wiki, objectives,
                   vars_mod, vars_cmp, call_args>>

\* udl_results = run_udl_precheck(data)
RunUdlPrecheck ==
    /\ pc = "udl"
    /\ call_result' = Append(call_result, run_udl_precheck(call_args[1]))
    /\ pc' = "done"
    /\ UNCHANGED <<vars_pub, vars_xml, vars_res, archive, vars_wiki, objectives,
                   vars_mod, vars_cmp, call_args>>

NextPrecheck == RunQmPrecheck \/ RunUdlPrecheck

SpecPrecheck == InitPrecheck /\ [][NextPrecheck]_vars

\* the status of the entry of results with the key id
StatusOf(results, id) ==
    LET i == CHOOSE j \in 1..Len(results) : results[j][1] = id
    IN  results[i][2][1]

\* C19: the result of run_qm_precheck has exactly one entry for each of the
\* 13 ids of QM_STANDARDS, each with one of the four statuses; the status of
\* 2.2 is the needs-review one exactly when there is no module and that of
\* 2.3 exactly when there is no objective; the result of run_udl_precheck
\* has the three principle entries.
C19_PrecheckTotal ==
    /\ pc \in {"udl", "done"} =>
           LET qm_results == call_result[1]
           IN  /\ Len(QM_STANDARDS) = 13
               /\ [i \in 1..Len(qm_results) |-> qm_results[i][1]] = QM_STANDARDS
               /\ \A i \in 1..Len(qm_results) : qm_results[i][2][1] \in Range(Statuses)
               /\ StatusOf(qm_results, "2.2") = StatusNeedsReview <=> Len(call_args[2]) = 0
               /\ StatusOf(qm_results, "2.3") = StatusNeedsReview <=> Len(call_args[4]) = 0
    /\ pc = "done" =>
           LET udl_results == call_result[2]
           IN  /\ Len(udl_results) = 3
               /\ {udl_results[i][1] : i \in 1..3}
                      = {"representation", "engagement", "action_expression"}
               /\ \A i \in 1..3 : udl_results[i][2][1] \in Range(Statuses)

C19_Witness ==
    /\ pc = "done"
    /\ call_args[2] = <<>>
    /\ call_args[4] # <<>>
    /\ StatusOf(call_result[1], "2.2") = StatusNeedsReview
    /\ StatusOf(call_result[1], "2.3") = StatusNotMet
    /\ Len(call_result[2]) = 3

(***************************************************************************)
(* Calls of extract_learning_objectives and extract_syllabus_objectives    *)
(***************************************************************************)
\* at most MaxObjPages wiki pages; a syllabus of at most MaxSylPieces
\* pieces; ExtraObjectives objectives more than the caps in the long texts
MaxObjPages == 2
MaxSylPieces == 2
ExtraObjectives == 1

\* text without an objective, longer than MinContentLen
PageIntro ==
    "Welcome to the course site; read everything on this page before the first class meeting. "

\* two statements with the same first 60 characters
SourcesInEssays ==
    "Students will evaluate the reliability of primary and secondary sources of historical evidence in essays. "
SourcesInExams ==
    "Students will evaluate the reliability of primary and secondary sources of historical evidence in exams. "

\* a statement of 59 characters, and one that goes on after the same 59
Republics ==
    "Students will compare the written constitutions of eleven early republics. "
RepublicsAndMore ==
    "Students will compare the written constitutions of eleven early republics and of three later ones. "

\* a statement of more than MaxObjectiveText characters
LongStatement == "Students will compare " \o Filler(MaxObjectiveText) \o " with care. "

\* the contents of a page: an objectives section with a bulleted line; two
\* statements with a common prefix; one statement
SectionContent == PageIntro \o "Learning Objectives:\n- Analyze data sets from the field.\n"
PrefixContent == PageIntro \o SourcesInEssays \o SourcesInExams
PosterContent == PageIntro \o "Students will design a poster about a local river. "

ObjPageNames == {"week-1-notes", "course-overview"}
ObjPageContents == {SectionContent, PrefixContent, PosterContent}

ObjWikis ==
    UNION { { [i \in 1..k |-> <<names[i], contents[i]>>] :
                names \in DistinctSeqsOfLen(ObjPageNames, k),
                contents \in SeqsOfLen(ObjPageContents, k) } : k \in 0..MaxObjPages }

\* the fields of an assignment that extract_learning_objectives reads
ObjAssignments ==
    { <<>>,
      << <<"Welcome Post", [instructions |-> " " \o PosterContent, folder_id |-> "g1-rivers"]>> >>,
      << <<"Essay", [instructions |-> PageIntro \o Republics \o RepublicsAndMore,
                     folder_id |-> "g2"]>> >> }

RECURSIVE ManyStatements(_, _)
\* the statements numbered from..to
ManyStatements(from, to) ==
    IF from > to THEN ""
    ELSE IF from = to
    THEN "Students will list item " \o DecimalStr(from) \o " of the reading schedule. "
    ELSE ManyStatements(from, (from + to) \div 2)
            \o ManyStatements((from + to) \div 2 + 1, to)

\* more objectives than the cap n, two of them with a common prefix and one
\* too long
LongText(n) ==
    SourcesInEssays \o SourcesInExams \o LongStatement \o ManyStatements(1, n + ExtraObjectives)

SylPieces ==
    {"Module Objectives:\n1. Describe the water cycle in detail\n",
     "You will meet MLO 2 by comparing two river systems.\n",
     "By the end of this module, you will be able to describe the water cycle in detail.\n",
     "Course Objectives:\n- Explain how MLO 3 supports the course goals\n",
     "Objectives:\n- Summarize the module objective of each unit\n",
     "Students will explain CLO 1 and MLO 2 in their own words.\n"}

SylTexts ==
    {ConcatText(ps) : ps \in UNION {DistinctSeqsOfLen(SylPieces, k) : k \in 0..MaxSylPieces}}
        \cup {"  \n", LongText(MaxSyllabusObjectives)}

ObjModules ==
    << [title |-> "Module 2 Rivers", position |-> "2", state |-> "active",
        items |-> <<>>, weeks_in_module |-> <<>>] >>

\* the calls: a course without syllabus, or a syllabus alone
ObjCalls ==
    { <<[wiki_full |-> w, assignments |-> a, syllabus_text |-> ""], ObjModules>> :
          w \in ObjWikis, a \in ObjAssignments }
    \cup { <<[wiki_full |-> << <<"unit-9-list", LongText(MaxCourseObjectives)>> >>,
             assignments |-> <<>>, syllabus_text |-> t], ObjModules>> :
             t \in {LongText(MaxSyllabusObjectives)} }
    \cup { <<[wiki_full |-> <<>>, assignments |-> <<>>, syllabus_text |-> t], <<>>>> :
             t \in SylTexts }

InitObjectives ==
    /\ pc = "course"
    /\ call_args \in ObjCalls
    /\ call_result = <<>>
    /\ IdlePub /\ IdleXml /\ IdleRes /\ IdleRead /\ IdleMod /\ IdleCmp

\* objectives = extract_learning_objectives(data, modules)
ExtractCourseObjectives ==
    /\ pc = "course"
    /\ call_result' = <<extract_learning_objectives(call_args[1], call_args[2])>>
    /\ pc' = "syllabus"
    /\ UNCHANGED <<vars_pub, vars_xml, vars_res, archive, vars_wiki, objectives,
                   vars_mod, vars_cmp, call_args>>

\* syl_objectives = extract_syllabus_objectives(data)
ExtractSyllabusObjectives ==
    /\ pc = "syllabus"
    /\ call_result' = Append(call_result, extract_syllabus_objectives(call_args[1]))
    /\ pc' = "done"
    /\ UNCHANGED <<vars_pub, vars_xml, vars_res, archive, vars_wiki, objectives,
                   vars_mod, vars_cmp, call_args>>

NextObjectives == ExtractCourseObjectives \/ ExtractSyllabusObjectives

SpecObjectives == InitObjectives /\ [][NextObjectives]_vars

\* the lines the section pass reads in text, in order, each with the hint
\* of its section
SectionFinds(text) ==
    LET secs == RxFindIter(SECTION_RE, Lower(text), 1)
    IN  Concat([k \in 1..Len(secs) |->
                   LET ls == SectionLines(text, secs[k])
                   IN  [i \in 1..Len(ls) |->
                           [line |-> ls[i], hint |-> SectionHint(text, secs[k])]]])

\* what the explicit labels of a syllabus statement make of it
SyllabusLabelType(statement) ==
    IF HasCloLabel("[syllabus]", Lower(statement)) THEN "CLO"
    ELSE IF HasMloLabel("[syllabus]", Lower(statement)) THEN "MLO"
    ELSE "CLO"

\* the classification of the objective o of the syllabus text: that of the
\* header of its section when it has one, that of its labels otherwise
SyllabusExpectedType(o, text) ==
    LET finds == SectionFinds(text)
        Q     == {i \in 1..Len(finds) :
                     /\ Prefix(finds[i].line, MaxObjectiveText) = o.text
                     /\ Len(finds[i].line) >= MinObjectiveLen
                     /\ \/ finds[i].hint # None
                        \/ detect_blooms_level(finds[i].line) # "Unclear"}
        e     == finds[CHOOSE i \in Q : \A j \in Q : i <= j]
    IN  IF Q = {} THEN SyllabusLabelType(o.text)
        ELSE IF e.hint # None THEN e.hint
        ELSE SyllabusLabelType(e.line)

\* C13 as stated: every objective of the syllabus is a CLO
C13_SyllabusAlwaysCLO ==
    pc = "done" => \A i \in 1..Len(call_result[2]) : call_result[2][i].obj_type = "CLO"

\* C13, amended: every objective returned by extract_syllabus_objectives has
\* the source label "[Syllabus]" and is a CLO or an MLO; taken from a section
\* it is an MLO when the header line of the section contains "module" and a
\* CLO when it does not but contains "course"; in every other case it is an
\* MLO exactly when its statement carries an explicit MLO label and no
\* explicit CLO label, whatever else it contains ("by the end of this
\* module" included)
C13_SyllabusTypes ==
    pc = "done" =>
        \A i \in 1..Len(call_result[2]) :
            LET o == call_result[2][i]
            IN  /\ o.source = "[Syllabus]"
                /\ o.obj_type \in {"CLO", "MLO"}
                /\ o.obj_type = SyllabusExpectedType(o, Strip(call_args[1].syllabus_text))

\* a syllabus with an MLO made by the header of its section, and an MLO made
\* by its label
C13_Witness ==
    /\ pc = "done"
    /\ \E i, j \in 1..Len(call_result[2]) :
          /\ call_result[2][i].obj_type = "MLO"
          /\ ~HasMloLabel("[syllabus]", Lower(call_result[2][i].text))
          /\ call_result[2][j].obj_type = "MLO"
          /\ HasMloLabel("[syllabus]", Lower(call_result[2][j].text))
          /\ SectionFinds(Strip(call_args[1].syllabus_text)) # <<>>

\* an objective statement whatever its case, spacing and closing punctuation
Statement(text) == RStripPunct(Strip(CollapseSpaces(Lower(text))))

\* the sources of a call in the order extract_learning_objectives reads
\* them, each with its label and its text
ProcessedSources(data) ==
    LET ps == SortedWikiPages(data.wiki_full)
    IN  [i \in 1..Len(ps) |-> [label |-> ps[i][1], text |-> Strip(ps[i][2])]]
        \o [i \in 1..Len(data.assignments) |->
               [label |-> "[Assignment] " \o data.assignments[i][1],
                text  |-> Strip(data.assignments[i][2].instructions)]]

First60(text) == Strip(Lower(SubSeq(text, 1, IF Len(text) < 60 THEN Len(text) ELSE 60)))

\* the lowercased, trimmed text cut to its first 60 characters
First60OfTrimmed(text) ==
    LET t == Strip(Lower(text)) IN SubSeq(t, 1, IF Len(t) < 60 THEN Len(t) ELSE 60)

\* the index in found of the first objective with the prefix of text
FirstWithPrefix(found, text) ==
    LET K == {k \in 1..Len(found) : First60(found[k].text) = First60(text)}
    IN  IF K = {} THEN 0 ELSE CHOOSE k \in K : \A l \in K : k <= l

\* returned holds, of the objectives of found that share a prefix, the
\* first, in the order of found, up to the cap
KeepsFirstOfEachPrefix(returned, found, cap) ==
    /\ \A i, j \in 1..Len(returned) :
          i < j => /\ First60(returned[i].text) # First60(returned[j].text)
                   /\ First60OfTrimmed(returned[i].text) # First60OfTrimmed(returned[j].text)
    /\ \A i \in 1..Len(returned) :
          /\ FirstWithPrefix(found, returned[i].text) # 0
          /\ found[FirstWithPrefix(found, returned[i].text)] = returned[i]
    /\ \A i, j \in 1..Len(returned) :
          i < j => FirstWithPrefix(found, returned[i].text)
                       < FirstWithPrefix(found, returned[j].text)
    /\ \A k \in 1..Len(found) :
          \/ \E i \in 1..Len(returned) : First60(returned[i].text) = First60(found[k].text)
          \/ Len(returned) = cap

\* C17: no two objectives returned by extract_learning_objectives or by
\* extract_syllabus_objectives have the same first 60 characters of
\* lowercased, trimmed text; of the extracted objectives with one prefix the
\* first extracted is the one kept, and the kept ones keep their order
C17_PrefixDedup ==
    pc = "done" =>
        /\ KeepsFirstOfEachPrefix(call_result[1],
                                  CourseObjectivesFound(call_args[1], call_args[2]),
                                  MaxCourseObjectives)
        /\ KeepsFirstOfEachPrefix(call_result[2], SyllabusObjectivesFound(call_args[1]),
                                  MaxSyllabusObjectives)

\* a course where two different statements with one prefix were extracted,
\* the second after a blank that ends the prefix, and two objectives kept
C17_Witness ==
    /\ pc = "done"
    /\ Len(call_result[1]) >= 2
    /\ LET found == CourseObjectivesFound(call_args[1], call_args[2])
       IN  \E k, l \in 1..Len(found) :
              /\ k < l
              /\ found[k].text # found[l].text
              /\ First60(found[k].text) = First60(found[l].text)
              /\ First60OfTrimmed(found[k].text) # First60OfTrimmed(found[l].text)

\* the objectives of found that are the first with their prefix, in order
FirstOccurrences(found) ==
    LET tagged == [k \in 1..Len(found) |-> [k |-> k, obj |-> found[k]]]
        firsts == SelectSeq(tagged, LAMBDA e : FirstWithPrefix(found, e.obj.text) = e.k)
    IN  [i \in 1..Len(firsts) |-> firsts[i].obj]

\* returned is the first cap objectives of the deduplicated list, each with
\* a text of at most 200 characters
IsCapped(returned, found, cap) ==
    LET deduped == FirstOccurrences(found)
    IN  /\ Len(returned) <= cap
        /\ Len(returned) = IF Len(deduped) < cap THEN Len(deduped) ELSE cap
        /\ \A i \in 1..Len(returned) :
              /\ returned[i] = deduped[i]
              /\ Len(returned[i].text) <= 200

\* C18: extract_learning_objectives returns at most 60 objectives and
\* extract_syllabus_objectives at most 40, the first 60 (40) of the
\* deduplicated objectives, and every returned text has at most 200
\* characters
C18_Caps ==
    pc = "done" =>
        /\ IsCapped(call_result[1], CourseObjectivesFound(call_args[1], call_args[2]), 60)
        /\ IsCapped(call_result[2], SyllabusObjectivesFound(call_args[1]), 40)

\* a course and a syllabus with more deduplicated objectives than the caps,
\* an objective dropped by the deduplication among the first 60 extracted,
\* and a text cut to 200 characters
C18_Witness ==
    /\ pc = "done"
    /\ Len(call_result[1]) = 60
    /\ Len(call_result[2]) = 40
    /\ LET found == CourseObjectivesFound(call_args[1], call_args[2])
       IN  /\ Len(FirstOccurrences(found)) > 60
           /\ \E k \in 1..60 : FirstWithPrefix(found, found[k].text) # k
    /\ Len(FirstOccurrences(SyllabusObjectivesFound(call_args[1]))) > 40
    /\ \E i \in 1..60 : Len(call_result[1][i].text) = 200
    /\ \E i \in 1..40 : Len(call_result[2][i].text) = 200

(***************************************************************************)
(* clean_assignment_name and format_due_date                               *)
(***************************************************************************)
\* str.upper() on one character
UpperChar(c) ==
    IF c \in Letters
    THEN Char(UpperLetters, CHOOSE i \in 1..26 : Char(LowerLetters, i) = c)
    ELSE c

\* str.capitalize()
Capitalize(w) ==
    IF w = "" THEN "" ELSE UpperChar(Char(w, 1)) \o Lower(Slice(w, 2, Len(w)))

\* str.split(): the maximal runs of characters that are not white space
SplitWhitespace(s) ==
    LET starts == {i \in 1..Len(s) :
                      ~IsSpace(Char(s, i)) /\ (i = 1 \/ IsSpace(Char(s, i - 1)))}
        EndOf(i) == LET N == {k \in i..Len(s) : IsSpace(Char(s, k))}
                    IN  IF N = {} THEN Len(s)
                        ELSE (CHOOSE k \in N : \A l \in N : k <= l) - 1
    IN  [k \in 1..Cardinality(starts) |->
            Slice(s, KthSmallest(starts, k), EndOf(KthSmallest(starts, k)))]

\* clean_assignment_name(folder_id, file_name)
clean_assignment_name(folder_id, file_name) ==
    LET name == Replace(Replace(Replace(file_name, ".html", ""), "-|-", " | "), "-", " ")
        ws == SplitWhitespace(name)
    IN  Join(" ", [k \in 1..Len(ws) |-> Capitalize(ws[k])])

AllDigits(s) == \A i \in 1..Len(s) : IsDigit(Char(s, i))

\* a field of one or two digits with a value of at most max: the directives
\* %m %d %H %M %S of strptime (%d takes a blank and a digit as well)
IsField(s, min, max) ==
    /\ Len(s) \in {1, 2}
    /\ AllDigits(s)
    /\ ParseInt(s) >= min
    /\ ParseInt(s) <= max

IsLeap(y) == (y % 4 = 0 /\ y % 100 # 0) \/ y % 400 = 0

DaysIn(y, m) ==
    IF m = 2 THEN (IF IsLeap(y) THEN 29 ELSE 28)
    ELSE IF m \in {4, 6, 9, 11} THEN 30 ELSE 31

\* '%02d' % n
Pad2(n) == IF n < 10 THEN "0" \o DecimalStr(n) ELSE DecimalStr(n)

\* datetime.strptime(s, '%Y-%m-%dT%H:%M:%S'): the six numbers, or <<>> when
\* a ValueError is raised.  The pattern is matched without regard to case
\* and has to use up the whole text.
strptime(s) ==
    LET low == Lower(s)
        d1 == 5
        d2 == IndexOf(low, "-", 6)
        t  == IndexOf(low, "t", d2 + 1)
        c1 == IndexOf(low, ":", t + 1)
        c2 == IndexOf(low, ":", c1 + 1)
        Y  == Slice(s, 1, 4)
        m  == Slice(s, 6, d2 - 1)
        d  == Slice(s, d2 + 1, t - 1)
        dd == IF Len(d) = 2 /\ Char(d, 1) = " " /\ Char(d, 2) # "0" THEN Slice(d, 2, 2) ELSE d
        H  == Slice(s, t + 1, c1 - 1)
        M  == Slice(s, c1 + 1, c2 - 1)
        S  == Slice(s, c2 + 1, Len(s))
    IN  IF /\ Len(s) >= 5 /\ Len(Y) = 4 /\ AllDigits(Y) /\ Char(s, 5) = "-"
           /\ d2 > 0 /\ t > d2 /\ c1 > t /\ c2 > c1
           /\ IsField(m, 1, 12) /\ IsField(dd, 1, 31) /\ IsField(H, 0, 23)
           /\ IsField(M, 0, 59) /\ IsField(S, 0, 61)
           /\ ParseInt(Y) >= 1
           /\ ParseInt(dd) <= DaysIn(ParseInt(Y), ParseInt(m))
           /\ ParseInt(S) <= 59
        THEN <<ParseInt(Y), ParseInt(m), ParseInt(dd), ParseInt(H), ParseInt(M), ParseInt(S)>>
        ELSE <<>>

\* dt.strftime('%m/%d/%Y %I:%M %p'), the year as the C library prints it
strftime(dt) ==
    Pad2(dt[2]) \o "/" \o Pad2(dt[3]) \o "/" \o DecimalStr(dt[1]) \o " "
        \o Pad2(IF dt[4] % 12 = 0 THEN 12 ELSE dt[4] % 12) \o ":" \o Pad2(dt[5])
        \o " " \o (IF dt[4] < 12 THEN "AM" ELSE "PM")

\* format_due_date(iso_string)
format_due_date(iso_string) ==
    IF iso_string = "" THEN "Not set"
    ELSE LET dt == strptime(Prefix(iso_string, 19))
         IN  IF dt = <<>> THEN iso_string ELSE strftime(dt)

(***************************************************************************)
(* read_imscc as a whole: the archive is opened, the settings files are    *)
(* read, then the wiki pages, the assignments and the assessments, and     *)
(* the publish counts are stored.  call_result holds data and the loop     *)
(* counters of the assignments and assessments; the wiki pages are kept    *)
(* in the variables of the wiki loop.                                      *)
(***************************************************************************)
\* the settings files in the order they are read, with their keys of data
SettingsFiles ==
    << <<"course_settings/course_settings.xml", "course_settings">>,
       <<"course_settings/assignment_groups.xml", "assignment_groups">>,
       <<ModuleMetaPath, "module_meta">>,
       <<"course_settings/rubrics.xml", "rubrics">>,
       <<ManifestPath, "manifest">> >>

\* z.read(path) raises
Unreadable(arch, path) == path \in arch.unreadable

\* a settings file is in the archive and cannot be read
SettingsRaise(arch) ==
    \E k \in 1..Len(SettingsFiles) :
        /\ SettingsFiles[k][1] \in Range(arch.names)
        /\ Unreadable(arch, SettingsFiles[k][1])

\* str.split('/')
PathParts(path) ==
    LET cuts == {i \in 1..Len(path) : Char(path, i) = "/"}
        n == Cardinality(cuts)
        CutAt(k) == IF k = 0 THEN 0 ELSE IF k > n THEN Len(path) + 1 ELSE KthSmallest(cuts, k)
    IN  [k \in 1..(n + 1) |-> Slice(path, CutAt(k - 1) + 1, CutAt(k) - 1)]

\* assign_html_files
AssignHtmlFiles(files) ==
    SelectSeq(files, LAMBDA f : /\ EndsWith(f, ".html")
                                /\ ~StartsWith(f, "wiki_content/")
                                /\ ~StartsWith(f, "web_resources/")
                                /\ ~Contains(Lower(f), "syllabus")
                                /\ Contains(f, "/"))

\* settings_path of an assignment candidate
AssignmentSettingsPath(assign_path) ==
    PathParts(assign_path)[1] \o "/assignment_settings.xml"

\* the folder that holds the candidate's HTML file
FolderOf(path) ==
    LET parts == PathParts(path)
    IN  Join("/", SubSeq(parts, 1, Len(parts) - 1))

\* what the settings file of a candidate says: published, due_date, points,
\* sub_type and clean_name after the five searches
AssignmentSettings(xml, folder_id, file_name) ==
    LET state_m == re_search(xml, "workflow_state")
        due_m   == re_search(xml, "due_at")
        pts_m   == re_search(xml, "points_possible")
        sub_m   == re_search(xml, "submission_types")
        title_m == re_search(xml, "title")
    IN  [published  |-> IF state_m # None THEN is_published_state(state_m) ELSE TRUE,
         due_date   |-> IF due_m # None THEN format_due_date(Strip(due_m)) ELSE "Not set",
         points     |-> IF pts_m # None THEN Strip(pts_m) ELSE "Not specified",
         sub_type   |-> IF sub_m # None THEN Strip(strip_html(sub_m)) ELSE "Not specified",
         clean_name |-> IF title_m # None THEN Strip(strip_html(title_m))
                        ELSE clean_assignment_name(folder_id, file_name)]

\* the body of a published candidate is read and stored under its name
StoreAssignment(d, arch, assign_path, folder_id, s) ==
    IF Unreadable(arch, assign_path) THEN d
    ELSE LET instructions == Strip(strip_html(arch.body[assign_path]))
         IN  IF instructions # ""
             THEN [d EXCEPT !.assign_pub = @ + 1,
                            !.assignments =
                                Put(@, s.clean_name,
                                    [instructions |-> instructions,
                                     due_date     |-> s.due_date,
                                     points       |-> s.points,
                                     sub_type     |-> s.sub_type,
                                     folder_id    |-> folder_id])]
             ELSE d

\* mutant: an unpublished candidate is listed and stored as well
FileAssignment_NoContinue(d, arch, assign_path, folder_id, s) ==
    IF ~s.published
    THEN StoreAssignment([d EXCEPT !.assign_unpub = @ + 1,
                                   !.assignments_unpub = Append(@, s.clean_name)],
                         arch, assign_path, folder_id, s)
    ELSE StoreAssignment(d, arch, assign_path, folder_id, s)

\* the candidate with the settings s: listed as unpublished, or stored
FileAssignment(d, arch, assign_path, folder_id, s) ==
    IF ~s.published
    THEN [d EXCEPT !.assign_unpub = @ + 1,
                   !.assignments_unpub = Append(@, s.clean_name)]
    ELSE StoreAssignment(d, arch, assign_path, folder_id, s)

\* one iteration of  for assign_path in assign_html_files  with the settings
\* looked for at settings_path; an exception leaves everything as it was
ReadAssignmentAt(d, arch, assign_path, settings_path) ==
    LET parts == PathParts(assign_path)
        folder_id == parts[1]
        file_name == parts[Len(parts)]
    IN  IF settings_path \in Range(arch.names)
        THEN IF Unreadable(arch, settings_path) THEN d
             ELSE FileAssignment(d, arch, assign_path, folder_id,
                                 AssignmentSettings(arch.body[settings_path],
                                                    folder_id, file_name))
        ELSE FileAssignment(d, arch, assign_path, folder_id,
                            AssignmentSettings(<<>>, folder_id, file_name))

\* one iteration of  for assign_path in assign_html_files
ReadAssignment(d, arch, assign_path) ==
    ReadAssignmentAt(d, arch, assign_path, AssignmentSettingsPath(assign_path))

MaxAssessFiles == 15
MaxAssessmentText == 2000

\* assess_files[:15]
AssessFiles(files) ==
    Prefix(SelectSeq(files, LAMBDA f : Contains(f, "assessment_qti.xml")), MaxAssessFiles)

\* one iteration of  for assess_path in assess_files[:15]
ReadAssessment(d, arch, assess_path) ==
    LET parts == PathParts(assess_path)
        settings_path == parts[1] \o "/assessment_meta.xml"
        found == settings_path \in Range(arch.names)
    IN  IF found /\ Unreadable(arch, settings_path) THEN d
        ELSE LET state_m == IF found THEN re_search(arch.body[settings_path], "workflow_state")
                            ELSE None
                 published == IF state_m # None THEN is_published_state(state_m) ELSE TRUE
             IN  IF ~published THEN [d EXCEPT !.assess_unpub = @ + 1]
                 ELSE IF Unreadable(arch, assess_path) \/ Len(parts) < 2 THEN d
                 ELSE LET clean == Strip(strip_html(arch.body[assess_path]))
                      IN  IF clean # ""
                          THEN [d EXCEPT !.assess_pub = @ + 1,
                                         !.assessments =
                                             Put(@, parts[Len(parts) - 1],
                                                 Prefix(clean, MaxAssessmentText))]
                          ELSE d

\* data and the counters before the archive is opened
NewData(syllabus) ==
    [course_settings   |-> <<>>,
     assignment_groups |-> <<>>,
     rubrics           |-> <<>>,
     syllabus_text     |-> "",
     assignments       |-> <<>>,
     assignments_unpub |-> <<>>,
     assessments       |-> <<>>,
     publish_stats     |-> <<>>,
     assign_pub        |-> 0,
     assign_unpub      |-> 0,
     assess_pub        |-> 0,
     assess_unpub      |-> 0,
     assign_i          |-> 1,
     assess_i          |-> 1]

\* with zipfile.ZipFile(zip_source, 'r') as z
OpenArchive ==
    /\ pc = "zip"
    /\ pc' = IF archive.openable THEN "settings" ELSE "raised"
    /\ UNCHANGED <<vars_pub, vars_xml, vars_res, archive, vars_wiki, objectives, vars_mod,
                   vars_cmp, vars_call>>

\* the settings files are read, the syllabus is stored and the published
\* file set is built; a settings file that cannot be read ends the call
ReadSettingsFiles ==
    /\ pc = "settings"
    /\ IF SettingsRaise(archive)
       THEN /\ pc' = "raised"
            /\ UNCHANGED <<vars_xml, vars_res, wiki_i, call_result>>
       ELSE /\ pc' = "wiki"
            /\ module_meta' = SettingsText(archive, ModuleMetaPath)
            /\ manifest' = SettingsText(archive, ManifestPath)
            /\ LET r == build_published_file_set(module_meta', manifest')
               IN  /\ published_hrefs' = r.published_hrefs
                   /\ item_states' = r.item_states
                   /\ id_to_href' = r.id_to_href
            /\ wiki_i' = 1
            /\ call_result' =
                  [call_result EXCEPT
                      !.course_settings = SettingsText(archive, SettingsFiles[1][1]),
                      !.assignment_groups = SettingsText(archive, SettingsFiles[2][1]),
                      !.rubrics = SettingsText(archive, SettingsFiles[4][1]),
                      !.syllabus_text = IF call_args[1] # "" THEN Strip(call_args[1])
                                        ELSE ""]
    /\ UNCHANGED <<vars_pub, archive, wiki_full, wiki_titles, wiki_unpublished,
                   wiki_pub, wiki_unpub, objectives, vars_mod, vars_cmp, call_args>>

\* the next assignment candidate
AssignmentCandidate ==
    /\ pc = "read"
    /\ call_result.assign_i <= Len(AssignHtmlFiles(archive.names))
    /\ call_result' =
          [ReadAssignment(call_result, archive,
                          AssignHtmlFiles(archive.names)[call_result.assign_i])
              EXCEPT !.assign_i = @ + 1]
    /\ UNCHANGED <<pc, vars_pub, vars_xml, vars_res, archive, vars_wiki, objectives,
                   vars_mod, vars_cmp, call_args>>

\* the loop over the assignment candidates ends
AssignmentsDone ==
    /\ pc = "read"
    /\ call_result.assign_i > Len(AssignHtmlFiles(archive.names))
    /\ pc' = "assess"
    /\ UNCHANGED <<vars_pub, vars_xml, vars_res, archive, vars_wiki, objectives, vars_mod,
                   vars_cmp, vars_call>>

\* the next assessment
Assessment ==
    /\ pc = "assess"
    /\ call_result.assess_i <= Len(AssessFiles(archive.names))
    /\ call_result' =
          [ReadAssessment(call_result, archive,
                          AssessFiles(archive.names)[call_result.assess_i])
              EXCEPT !.assess_i = @ + 1]
    /\ UNCHANGED <<pc, vars_pub, vars_xml, vars_res, archive, vars_wiki, objectives,
                   vars_mod, vars_cmp, call_args>>

\* data['publish_stats'] = {...}; return data
StorePublishStats ==
    /\ pc = "assess"
    /\ call_result.assess_i > Len(AssessFiles(archive.names))
    /\ pc' = "returned"
    /\ call_result' =
          [call_result EXCEPT !.publish_stats =
              [wiki_published     |-> wiki_pub,
               wiki_unpublished   |-> wiki_unpub,
               assign_published   |-> call_result.assign_pub,
               assign_unpublished |-> call_result.assign_unpub,
               assess_published   |-> call_result.assess_pub,
               assess_unpublished |-> call_result.assess_unpub]]
    /\ UNCHANGED <<vars_pub, vars_xml, vars_res, archive, vars_wiki, objectives, vars_mod,
                   vars_cmp, call_args>>

(***************************************************************************)
(* Archives of read_imscc: a file that is no archive, and archives made of *)
(* at most MaxEntries of the entries below next to four members that are   *)
(* neither page, assignment nor assessment.                                *)
(***************************************************************************)
MaxEntries == 2

Member(path, body) == [path |-> path, body |-> body, ok |-> TRUE]

BrokenMember(path) == [path |-> path, body |-> ReadError, ok |-> FALSE]

BrokenXml(path) == [path |-> path, body |-> <<Tok(ReadError, "")>>, ok |-> FALSE]

SettingsXml(title, state, due) ==
    <<Tok("assignment", "")>> \o Opt("title", title) \o Opt("due_at", due)
        \o Opt("workflow_state", state)
        \o (IF due = None THEN <<>>
            ELSE <<Tok("points_possible", "10.0"),
                   Tok("submission_types", "online_text_entry")>>)
        \o <<Tok("/assignment", "")>>

FixedMembers ==
    << Member("top.html", "<p>Top level file</p>"),
       Member("course_settings/syllabus.html", "<p>Syllabus body</p>"),
       Member("web_resources/help.html", "<p>Help file</p>"),
       Member("g1/notes.txt", "notes") >>

ImsccEntries ==
    << <<Member("wiki_content/week-1-overview.html", "<p>Read the overview.</p>")>>,
       <<BrokenMember("wiki_content/broken.html")>>,
       <<Member("g1/essay-one.html", "<p>Write an essay.</p>")>>,
       <<Member("g2/essay-draft.html", "<p>Revise the essay.</p>"),
         Member("g2/assignment_settings.xml",
                SettingsXml("Essay One", "published", "2024-03-05T23:59:00Z"))>>,
       <<Member("g3/quiz-review.html", "<p>Review the quiz.</p>"),
         Member("g3/assignment_settings.xml", SettingsXml("Quiz Review", "unpublished", None))>>,
       <<Member("g4/assignment_settings.xml", SettingsXml("Group Folder", "unpublished", None)),
         Member("g4/sub/assignment_settings.xml", SettingsXml("Nested Task", "active", None)),
         Member("g4/sub/body.html", "<p>Do the nested task.</p>")>>,
       <<BrokenMember("g5/broken-task.html")>>,
       <<Member("g6/task.html", "<p>Do the task.</p>"),
         BrokenXml("g6/assignment_settings.xml")>>,
       <<Member("g7/blank.html", "<p> </p>")>>,
       <<Member("q1/assessment_meta.xml",
                <<Tok("quiz", ""), Tok("workflow_state", "active"), Tok("/quiz", "")>>),
         Member("q1/assessment_qti.xml", "<item><mattext>What is 2 + 2?</mattext></item>")>>,
       <<Member("q2/assessment_meta.xml",
                <<Tok("quiz", ""), Tok("workflow_state", "unpublished"), Tok("/quiz", "")>>),
         Member("q2/assessment_qti.xml", "<item><mattext>Name a river.</mattext></item>")>>,
       <<BrokenMember("q3/assessment_qti.xml")>>,
       <<BrokenXml("course_settings/rubrics.xml")>>,
       <<Member("course_settings/course_settings.xml",
                <<Tok("course", ""), Tok("title", "Rivers"), Tok("/course", "")>>)>> >>

\* the archive with the entries of chosen, in their order
ImsccArchiveOf(chosen) ==
    LET members == FixedMembers
                     \o Concat([k \in 1..Cardinality(chosen) |->
                                   ImsccEntries[KthSmallest(chosen, k)]])
        names == [k \in 1..Len(members) |-> members[k].path]
        At(n) == members[CHOOSE k \in 1..Len(members) : members[k].path = n]
    IN  [names      |-> names,
         body       |-> [n \in Range(names) |-> At(n).body],
         unreadable |-> {n \in Range(names) : ~At(n).ok},
         openable   |-> TRUE]

\* a file that zipfile cannot open
NoArchive == [names |-> <<>>, body |-> <<>>, unreadable |-> {}, openable |-> FALSE]

ImsccArchives ==
    {NoArchive} \cup
    {ImsccArchiveOf(chosen) :
        chosen \in {c \in SUBSET (1..Len(ImsccEntries)) : Cardinality(c) <= MaxEntries}}

SyllabusArguments == {"", " Online syllabus \n"}

InitImscc ==
    /\ pc = "zip"
    /\ archive \in ImsccArchives
    /\ call_args \in {<<s>> : s \in SyllabusArguments}
    /\ call_result = NewData(call_args[1])
    /\ IdlePub /\ IdleXml /\ IdleRes /\ IdleWiki /\ IdleMod /\ IdleCmp
    /\ objectives = <<>>

NextImscc ==
    \/ OpenArchive \/ ReadSettingsFiles \/ WikiPage \/ WikiDone
    \/ AssignmentCandidate \/ AssignmentsDone \/ Assessment \/ StorePublishStats

SpecImscc == InitImscc /\ [][NextImscc]_vars

(***************************************************************************)
(* Claims about read_imscc as a whole                                      *)
(***************************************************************************)
\* C21: read_imscc raises if and only if the input cannot be opened as an
\* archive: the read of an archive that opens is never aborted, whatever
\* member of it cannot be read, and a file that does not open is not read
C21_RaisesOnlyUnopenable ==
    /\ pc = "raised" => ~archive.openable
    /\ ~archive.openable => pc \in {"zip", "raised"}

\* the step of read_imscc between two states is the iteration of a loop
PageIteration == pc = "wiki" /\ wiki_i' = wiki_i + 1

CandidateIteration == pc = "read" /\ call_result'.assign_i = call_result.assign_i + 1

AssessmentIteration == pc = "assess" /\ call_result'.assess_i = call_result.assess_i + 1

\* the member the iteration is about
PageAtHand == WikiFiles(archive.names)[wiki_i]

CandidateAtHand == AssignHtmlFiles(archive.names)[call_result.assign_i]

AssessmentAtHand == AssessFiles(archive.names)[call_result.assess_i]

\* C22: a page, an assignment or an assessment whose content cannot be
\* read is skipped: its iteration adds no entry to wiki_full, assignments
\* or assessments and changes none
C22_UnreadableSkipped ==
    [][/\ (PageIteration /\ Unreadable(archive, PageAtHand)) => wiki_full' = wiki_full
       /\ (CandidateIteration /\ Unreadable(archive, CandidateAtHand))
             => call_result'.assignments = call_result.assignments
       /\ (AssessmentIteration /\ Unreadable(archive, AssessmentAtHand))
             => call_result'.assessments = call_result.assessments]_vars

\* d[k] of a dict kept as a sequence of pairs
Entry(d, k) == d[CHOOSE i \in 1..Len(d) : d[i][1] = k][2]

\* the settings file the candidate's iteration looks for is not in the archive
NoSettingsFound(assign_path) ==
    AssignmentSettingsPath(assign_path) \notin Range(archive.names)

\* the workflow state of the settings file found for the candidate, or None
SettingsState(assign_path) ==
    IF NoSettingsFound(assign_path) \/ Unreadable(archive, AssignmentSettingsPath(assign_path))
    THEN None
    ELSE re_search(archive.body[AssignmentSettingsPath(assign_path)], "workflow_state")

\* the name of the candidate: the title of its settings file, or the
\* cleaned file name
NameOf(assign_path) ==
    LET parts == PathParts(assign_path)
        title == IF NoSettingsFound(assign_path) THEN None
                 ELSE re_search(archive.body[AssignmentSettingsPath(assign_path)], "title")
    IN  IF title # None THEN Strip(strip_html(title))
        ELSE clean_assignment_name(parts[1], parts[Len(parts)])

\* C24: a candidate for which no settings file is found is treated as
\* published, with due date 'Not set' and points and submission type
\* 'Not specified': it is not listed as unpublished and the entry it stores
\* holds these values; a candidate whose settings workflow state fails the
\* publish predicate has its name appended to assignments_unpub, is counted
\* as unpublished and creates or overwrites no entry of assignments
C24_AssignmentDefaults ==
    [][CandidateIteration =>
          LET d == call_result
              e == call_result'
              name == NameOf(CandidateAtHand)
              state == SettingsState(CandidateAtHand)
              stored == ~Unreadable(archive, CandidateAtHand)
                          /\ Strip(strip_html(archive.body[CandidateAtHand])) # ""
          IN  /\ NoSettingsFound(CandidateAtHand) =>
                    /\ e.assignments_unpub = d.assignments_unpub
                    /\ e.assign_unpub = d.assign_unpub
                    /\ IF stored
                       THEN /\ name \in Keys(e.assignments)
                            /\ Entry(e.assignments, name).due_date = "Not set"
                            /\ Entry(e.assignments, name).points = "Not specified"
                            /\ Entry(e.assignments, name).sub_type = "Not specified"
                            /\ e.assign_pub = d.assign_pub + 1
                       ELSE e.assignments = d.assignments
              /\ (state # None /\ ~is_published_state(state)) =>
                    /\ e.assignments_unpub = Append(d.assignments_unpub, name)
                    /\ e.assign_unpub = d.assign_unpub + 1
                    /\ e.assignments = d.assignments
                    /\ e.assign_pub = d.assign_pub]_vars

\* the candidates are through: one without settings file was stored with
\* the placeholder values and one with an unpublished state was listed
C24_Witness ==
    /\ pc = "assess"
    /\ Len(AssignHtmlFiles(archive.names)) = 2
    /\ NoSettingsFound(AssignHtmlFiles(archive.names)[1])
    /\ SettingsState(AssignHtmlFiles(archive.names)[2]) = "unpublished"
    /\ call_result.assignments_unpub = <<"Quiz Review">>
    /\ Keys(call_result.assignments) = {"Essay One"}
    /\ Entry(call_result.assignments, "Essay One").due_date = "Not set"

\* C25: the settings file consulted for a candidate is the
\* assignment_settings.xml in the folder of the candidate's HTML file, at
\* every depth: the iteration does what it does with that file
C25_SiblingSettings ==
    [][CandidateIteration =>
          call_result' =
              [ReadAssignmentAt(call_result, archive, CandidateAtHand,
                                FolderOf(CandidateAtHand) \o "/assignment_settings.xml")
                  EXCEPT !.assign_i = @ + 1]]_vars

\* C28: in the record returned, the published-assignment count is the
\* number of entries of assignments and the unpublished-assignment count
\* is the length of assignments_unpub
C28_AssignmentCounts ==
    pc = "returned" =>
        /\ call_result.publish_stats.assign_published = Len(call_result.assignments)
        /\ call_result.publish_stats.assign_unpublished = Len(call_result.assignments_unpub)

(***************************************************************************)
(* extract_grading_structure                                               *)
(***************************************************************************)
\* the key of a group whose position is not a run of digits
NoPositionKey == 99

\* str.isdigit() (on the ASCII texts of the model)
IsDigitText(s) == s # "" /\ AllDigits(s)

\* f"{float(s):.1f}" for a numeral s in plain decimal notation, digits with
\* or without a fraction; a tie is rounded to the even digit, and the only
\* ties taken are those a float holds exactly (fractions .25 and .75)
FormatTenths(s) ==
    LET dot == IndexOf(s, ".", 1)
        whole == IF dot = 0 THEN s ELSE Slice(s, 1, dot - 1)
        frac == IF dot = 0 THEN "" ELSE Slice(s, dot + 1, Len(s))
        first == IF frac = "" THEN 0 ELSE DigitValue(Char(frac, 1))
        rest == Slice(frac, 2, Len(frac))
        half == rest # "" /\ Char(rest, 1) = "5"
                   /\ \A i \in 2..Len(rest) : Char(rest, i) = "0"
        up == IF rest = "" THEN FALSE
              ELSE IF half THEN first % 2 = 1
              ELSE DigitValue(Char(rest, 1)) >= 5
        tenths == ParseInt(whole) * 10 + first + (IF up THEN 1 ELSE 0)
    IN  DecimalStr(tenths \div 10) \o "." \o DecimalStr(tenths % 10)

\* float(s) does not raise (for the texts of the model: a plain numeral)
IsNumeral(s) ==
    LET dot == IndexOf(s, ".", 1)
        digits == IF dot = 0 THEN s ELSE Slice(s, 1, dot - 1) \o Slice(s, dot + 1, Len(s))
    IN  digits # "" /\ AllDigits(digits)

\* weight of a group
GroupWeight(w_m) ==
    IF w_m = None THEN "0.0"
    ELSE IF IsNumeral(Strip(w_m)) THEN FormatTenths(Strip(w_m))
    ELSE Strip(w_m)

\* the group of one block of assignment_groups.xml
GradingGroup(block) ==
    LET t_m == re_search(block, "title")
        w_m == re_search(block, "group_weight")
        p_m == re_search(block, "position")
    IN  [name     |-> IF t_m # None THEN Strip(strip_html(t_m)) ELSE "Unnamed",
         weight   |-> GroupWeight(w_m),
         position |-> IF p_m # None THEN Strip(p_m) ELSE "?"]

\* key=lambda g: int(g['position']) if g['position'].isdigit() else 99
PositionKey(g) ==
    IF IsDigitText(g.position) THEN ParseInt(g.position) ELSE NoPositionKey

\* list.sort(key=...): ascending keys, equal keys in their former order
SortByKey(gs, Key(_)) ==
    LET Rank(i) == Cardinality({j \in 1..Len(gs) :
                       Key(gs[j]) < Key(gs[i]) \/ (Key(gs[j]) = Key(gs[i]) /\ j < i)}) + 1
    IN  [r \in 1..Len(gs) |-> gs[CHOOSE i \in 1..Len(gs) : Rank(i) = r]]

\* extract_grading_structure(data)
extract_grading_structure(data) ==
    IF data.assignment_groups = <<>> THEN <<>>
    ELSE LET blocks == re_split_tail(data.assignment_groups, "assignmentGroup")
         IN  SortByKey([k \in 1..Len(blocks) |-> GradingGroup(blocks[k])], PositionKey)

(***************************************************************************)
(* The calls of extract_grading_structure: assignment_groups.xml with at   *)
(* most MaxGroups groups, each with a position of the pool or none         *)
(***************************************************************************)
MaxGroups == 3

GroupPositions == {"1", "2", " 02 ", "99", "100", "last", None}

GroupTitles == <<"Essays", "<b>Quizzes</b>", "Exams">>

GroupWeights == <<"40", " 12.25 ", "n/a">>

\* <assignmentGroup identifier=...> title position group_weight </assignmentGroup>
SerializeGroup(k, position) ==
    <<Tok("assignmentGroup", ""), Tok("title", GroupTitles[k])>>
        \o Opt("position", position)
        \o <<Tok("group_weight", GroupWeights[k]), Tok("/assignmentGroup", "")>>

SerializeGroups(positions) ==
    IF positions = <<>> THEN <<>>
    ELSE <<Tok("assignmentGroups", "")>>
            \o Concat([k \in 1..Len(positions) |-> SerializeGroup(k, positions[k])])
            \o <<Tok("/assignmentGroups", "")>>

GradingCalls ==
    {<<[assignment_groups |-> SerializeGroups(ps)], ps>> :
        ps \in UNION {[1..n -> GroupPositions] : n \in 0..MaxGroups}}

InitGrading ==
    /\ pc = "call"
    /\ call_args \in GradingCalls
    /\ call_result = <<>>
    /\ IdlePub /\ IdleXml /\ IdleRes /\ IdleRead /\ IdleMod /\ IdleCmp

\* grading = extract_grading_structure(data)
ExtractGradingStructure ==
    /\ pc = "call"
    /\ call_result' = extract_grading_structure(call_args[1])
    /\ pc' = "done"
    /\ UNCHANGED <<vars_pub, vars_xml, vars_res, archive, vars_wiki, objectives, vars_mod,
                   vars_cmp, call_args>>

NextGrading == ExtractGradingStructure

SpecGrading == InitGrading /\ [][NextGrading]_vars

\* the place of the group in assignment_groups.xml (the titles differ)
SourceIndex(g) ==
    CHOOSE k \in 1..Len(GroupTitles) : Strip(strip_html(GroupTitles[k])) = g.name

\* g may stand before h in the list returned
MayPrecede(g, h) ==
    IF IsDigitText(g.position) /\ IsDigitText(h.position)
    THEN \/ ParseInt(g.position) < ParseInt(h.position)
         \/ ParseInt(g.position) = ParseInt(h.position) /\ SourceIndex(g) < SourceIndex(h)
    ELSE IF IsDigitText(g.position) THEN TRUE
    ELSE IF IsDigitText(h.position) THEN FALSE
    ELSE SourceIndex(g) < SourceIndex(h)

\* C26: extract_grading_structure returns every group of the file once,
\* the groups with a numeric position first in ascending order of the
\* number, then the groups with a non-numeric position, whatever the
\* numbers are; groups with equal keys keep their source order
C26_SortedByPosition ==
    pc = "done" =>
        /\ Len(call_result) = Len(call_args[2])
        /\ {SourceIndex(call_result[i]) : i \in 1..Len(call_result)} = 1..Len(call_args[2])
        /\ \A i, j \in 1..Len(call_result) :
              i < j => MayPrecede(call_result[i], call_result[j])

(***************************************************************************)
(* extract_course_identity                                                 *)
(***************************************************************************)
DateLen == 10

\* identity[key] for a tag of course_settings.xml
IdentityField(settings, tag, is_date) ==
    LET found == re_search(settings, tag)
        val == Strip(strip_html(found))
    IN  IF found = None THEN "Unknown"
        ELSE IF is_date THEN Prefix(val, DateLen) ELSE val

\* combined
CombinedText(data) ==
    Lower(Join(" ", Values(data.wiki_full)) \o data.syllabus_text)

\* the modality the keywords of the text give
ModalityOf(combined) ==
    IF Contains(combined, "online") THEN "Online"
    ELSE IF Contains(combined, "hybrid") THEN "Hybrid"
    ELSE IF Contains(combined, "face-to-face") \/ Contains(combined, "in-person")
    THEN "Face-to-Face"
    ELSE "Unknown"

\* extract_course_identity(data)
extract_course_identity(data) ==
    IF data.course_settings = <<>>
    THEN [title |-> "Unknown", code |-> "Unknown", modality |-> "Unknown",
          start_date |-> "Unknown", end_date |-> "Unknown"]
    ELSE [title      |-> IdentityField(data.course_settings, "title", FALSE),
          code       |-> IdentityField(data.course_settings, "course_code", FALSE),
          modality   |-> ModalityOf(CombinedText(data)),
          start_date |-> IdentityField(data.course_settings, "start_at", TRUE),
          end_date   |-> IdentityField(data.course_settings, "conclude_at", TRUE)]

(***************************************************************************)
(* The calls of extract_course_identity: records with or without course    *)
(* settings, at most MaxIdentityPages pages and a syllabus text            *)
(***************************************************************************)
MaxIdentityPages == 2

IdentitySettings ==
    { <<>>,
      <<Tok("course", ""), Tok("title", " Rivers &amp; Lakes "), Tok("/course", "")>>,
      <<Tok("course", ""), Tok("title", "<b>Rivers</b>"), Tok("course_code", "GEO-101"),
        Tok("start_at", "2024-01-15T08:00:00"), Tok("conclude_at", "2024-05-10"),
        Tok("/course", "")>> }

IdentityPages ==
    << <<"welcome", "This course meets ONLINE every week.">>,
       <<"format", "A Hybrid format with two campus days.">>,
       <<"labs", "Labs are held in-person; lectures are face-to-face.">>,
       <<"reading", "Read chapter one and sign on">>,
       <<"notes", "Bring a notebook.">> >>

IdentitySyllabi == {"", "line up for the field trip", "Hybrid delivery"}

IdentityCalls ==
    {<<[course_settings |-> s,
        wiki_full       |-> [k \in 1..Cardinality(chosen) |->
                                IdentityPages[KthSmallest(chosen, k)]],
        syllabus_text   |-> syl]>> :
        s \in IdentitySettings,
        chosen \in {c \in SUBSET (1..Len(IdentityPages)) : Cardinality(c) <= MaxIdentityPages},
        syl \in IdentitySyllabi}

InitIdentity ==
    /\ pc = "call"
    /\ call_args \in IdentityCalls
    /\ call_result = <<>>
    /\ IdlePub /\ IdleXml /\ IdleRes /\ IdleRead /\ IdleMod /\ IdleCmp

\* identity = extract_course_identity(data)
ExtractCourseIdentity ==
    /\ pc = "call"
    /\ call_result' = extract_course_identity(call_args[1])
    /\ pc' = "done"
    /\ UNCHANGED <<vars_pub, vars_xml, vars_res, archive, vars_wiki, objectives, vars_mod,
                   vars_cmp, call_args>>

NextIdentity == ExtractCourseIdentity

SpecIdentity == InitIdentity /\ [][NextIdentity]_vars

\* the text of the published pages followed by the syllabus text, in lower case
PageAndSyllabusText ==
    Lower(Join(" ", [k \in 1..Len(call_args[1].wiki_full) |-> call_args[1].wiki_full[k][2]])
            \o call_args[1].syllabus_text)

\* C27: the modality is inferred from the text of the published pages and
\* the syllabus alone: Online when "online" occurs in it, else Hybrid when
\* "hybrid" occurs, else Face-to-Face when "face-to-face" or "in-person"
\* occurs, else Unknown, with or without course settings
C27_ModalityFromText ==
    pc = "done" =>
        call_result.modality =
            (IF Contains(PageAndSyllabusText, "online") THEN "Online"
             ELSE IF Contains(PageAndSyllabusText, "hybrid") THEN "Hybrid"
             ELSE IF Contains(PageAndSyllabusText, "face-to-face")
                        \/ Contains(PageAndSyllabusText, "in-person")
             THEN "Face-to-Face"
             ELSE "Unknown")

(***************************************************************************)
(* main: the command line of analyze.py.  call_args holds sys.argv and the *)
(* files of the working directory; call_result holds the locals of main,   *)
(* what was printed as usage, and the paths read and written.              *)
(***************************************************************************)
\* os.path.basename(path)
Basename(path) == LET parts == PathParts(path) IN parts[Len(parts)]

\* os.path.splitext(name)[0] for a name without '/': the name up to its last
\* dot, when a character other than a dot stands before that dot
SplitextRoot(name) ==
    LET dots == {i \in 1..Len(name) : Char(name, i) = "."}
        last == CHOOSE i \in dots : \A j \in dots : j <= i
    IN  IF dots # {} /\ \E i \in 1..(last - 1) : Char(name, i) # "."
        THEN Slice(name, 1, last - 1)
        ELSE name

\* f'{base}_analysis.md'
DefaultOutput(imscc_path) == SplitextRoot(Basename(imscc_path)) \o "_analysis.md"

\* the locals of main before sys.argv is looked at
MainLocals ==
    [imscc_path   |-> None,
     output_path  |-> None,
     syllabus_txt |-> "",
     args         |-> <<>>,
     usage        |-> FALSE,
     reads        |-> <<>>,
     written      |-> <<>>]

\* if len(sys.argv) < 2: usage, sys.exit(1); else the locals are set
CheckArgv ==
    /\ pc = "main"
    /\ IF Len(call_args[1]) < 2
       THEN /\ pc' = "exit 1"
            /\ call_result' = [call_result EXCEPT !.usage = TRUE]
       ELSE /\ pc' = "args"
            /\ call_result' = [call_result EXCEPT !.imscc_path = call_args[1][2],
                                                  !.args = SubSeq(call_args[1], 3,
                                                                  Len(call_args[1]))]
    /\ UNCHANGED <<vars_pub, vars_xml, vars_res, archive, vars_wiki, objectives, vars_mod,
                   vars_cmp, call_args>>

\* one iteration of  while args ; a syllabus file that is not there ends
\* the program with a traceback
ParseArg ==
    /\ pc = "args"
    /\ call_result.args # <<>>
    /\ LET arg == Head(call_result.args)
           rest == Tail(call_result.args)
       IN  IF arg = "--output" /\ rest # <<>>
           THEN /\ call_result' = [call_result EXCEPT !.output_path = Head(rest),
                                                      !.args = Tail(rest)]
                /\ pc' = pc
           ELSE IF arg = "--syllabus" /\ rest # <<>>
           THEN IF Head(rest) \in DOMAIN call_args[2]
                THEN /\ call_result' = [call_result EXCEPT
                                           !.syllabus_txt = call_args[2][Head(rest)],
                                           !.reads = Append(@, Head(rest)),
                                           !.args = Tail(rest)]
                     /\ pc' = pc
                ELSE /\ call_result' = [call_result EXCEPT !.args = Tail(rest)]
                     /\ pc' = "traceback"
           ELSE /\ call_result' = [call_result EXCEPT !.args = rest]
                /\ pc' = pc
    /\ UNCHANGED <<vars_pub, vars_xml, vars_res, archive, vars_wiki, objectives, vars_mod,
                   vars_cmp, call_args>>

\* if not output_path: pass  else: output_path = f'{base}_analysis.md'
ResolveOutput ==
    /\ pc = "args"
    /\ call_result.args = <<>>
    /\ call_result' =
          IF call_result.output_path \in {None, ""} THEN call_result
          ELSE [call_result EXCEPT !.output_path = DefaultOutput(call_result.imscc_path)]
    /\ pc' = "read"
    /\ UNCHANGED <<vars_pub, vars_xml, vars_res, archive, vars_wiki, objectives, vars_mod,
                   vars_cmp, call_args>>

\* data = read_imscc(imscc_path, ...) and the analysis up to the document
ReadCourse ==
    /\ pc = "read"
    /\ IF call_result.imscc_path \in DOMAIN call_args[2]
          /\ call_args[2][call_result.imscc_path] = "archive"
       THEN /\ pc' = "write"
            /\ call_result' = [call_result EXCEPT !.reads = Append(@, call_result.imscc_path)]
       ELSE /\ pc' = "traceback"
            /\ UNCHANGED call_result
    /\ UNCHANGED <<vars_pub, vars_xml, vars_res, archive, vars_wiki, objectives, vars_mod,
                   vars_cmp, call_args>>

\* with open(output_path, 'w', ...) as f: f.write(document)
WriteReport ==
    /\ pc = "write"
    /\ IF call_result.output_path \in {None, ""}
       THEN /\ pc' = "traceback"
            /\ UNCHANGED call_result
       ELSE /\ pc' = "saved"
            /\ call_result' = [call_result EXCEPT !.written = Append(@, call_result.output_path)]
    /\ UNCHANGED <<vars_pub, vars_xml, vars_res, archive, vars_wiki, objectives, vars_mod,
                   vars_cmp, call_args>>

(***************************************************************************)
(* Command lines of at most MaxArgs arguments in a directory with two      *)
(* archives and a syllabus file                                            *)
(***************************************************************************)
MaxArgs == 3

WorkingDirectory ==
    [n \in {"course.imscc", "exports/My.Course.v2.imscc", "syllabus.txt"} |->
        IF n = "syllabus.txt" THEN "Online syllabus" ELSE "archive"]

ArgumentPool ==
    {"course.imscc", "exports/My.Course.v2.imscc", "--output", "report.md",
     "--syllabus", "syllabus.txt"}

CommandLines ==
    {<<"analyze.py">> \o a : a \in UNION {[1..n -> ArgumentPool] : n \in 0..MaxArgs}}

InitMain ==
    /\ pc = "main"
    /\ call_args \in {<<argv, WorkingDirectory>> : argv \in CommandLines}
    /\ call_result = MainLocals
    /\ IdlePub /\ IdleXml /\ IdleRes /\ IdleRead /\ IdleMod /\ IdleCmp

NextMain == CheckArgv \/ ParseArg \/ ResolveOutput \/ ReadCourse \/ WriteReport

SpecMain == InitMain /\ [][NextMain]_vars

RECURSIVE OutputOption(_)
\* the path given with --output on the command line (the last one, if
\* several), or None: the arguments are read from the left, a flag with the
\* argument after it
OutputOption(arguments) ==
    IF Len(arguments) < 2 THEN None
    ELSE IF Head(arguments) \in {"--output", "--syllabus"}
    THEN LET later == OutputOption(Tail(Tail(arguments)))
         IN  IF later # None THEN later
             ELSE IF Head(arguments) = "--output" THEN arguments[2] ELSE None
    ELSE OutputOption(Tail(arguments))

\* C23: with no path argument the usage message is printed and the program
\* exits with status 1 without reading anything; with a path argument the
\* program does not end before the report is written, and the report is
\* written to the path given with --output or, without --output, to
\* "<archive base name>_analysis.md"
C23_OutputPath ==
    LET argv == call_args[1]
        given == OutputOption(SubSeq(argv, 3, Len(argv)))
    IN  IF Len(argv) < 2
        THEN /\ pc \in {"main", "exit 1"}
             /\ call_result.reads = <<>> /\ call_result.written = <<>>
             /\ pc = "exit 1" => call_result.usage
        ELSE /\ pc # "exit 1"
             /\ ~call_result.usage
             /\ pc = "traceback" => call_result.reads = <<>>
                                     \/ call_result.imscc_path \notin Range(call_result.reads)
             /\ pc = "saved" =>
                   call_result.written =
                       <<IF given # None THEN given ELSE DefaultOutput(argv[2])>>

(***************************************************************************)
(* streamlit_app.py: the script is run from the top at every interaction   *)
(* with the page.  call_args holds the widgets (the uploaded file and the  *)
(* syllabus text), call_result the session state and what the run          *)
(* displayed.  A result is written as the file content and the syllabus    *)
(* text it was computed from, with the file name stored beside it.         *)
(***************************************************************************)
\* uploaded is None
NoFile == [name |-> None, size |-> 0, content |-> None, valid |-> FALSE]

\* "last_result" is not in st.session_state; nothing is displayed
NoResult == [content |-> None, syllabus |-> None, filename |-> None]

\* file_id
FileId(uploaded, syllabus_text) ==
    uploaded.name \o "_" \o DecimalStr(uploaded.size) \o "_" \o DecimalStr(Len(syllabus_text))

\* the analysis of the try block: the result, or NoResult when it raises
Analysis(uploaded, syllabus_text) ==
    IF uploaded.valid
    THEN [content |-> uploaded.content, syllabus |-> Strip(syllabus_text),
          filename |-> uploaded.name]
    ELSE NoResult

\* one run of the script with the widgets as given: the session state
\* after it and the result displayed (NoResult after st.stop())
Script(session, uploaded, syllabus_text, run_button) ==
    IF uploaded = NoFile
    THEN [session EXCEPT !.displayed = NoResult]
    ELSE IF ~run_button /\ session.last_result = NoResult
    THEN [session EXCEPT !.displayed = NoResult]
    ELSE IF run_button \/ session.last_file_id # FileId(uploaded, syllabus_text)
    THEN IF Analysis(uploaded, syllabus_text) = NoResult
         THEN [session EXCEPT !.displayed = NoResult]
         ELSE [last_result  |-> Analysis(uploaded, syllabus_text),
               last_file_id |-> FileId(uploaded, syllabus_text),
               displayed    |-> Analysis(uploaded, syllabus_text)]
    ELSE [session EXCEPT !.displayed = session.last_result]

\* the name of the file offered for download
DownloadName(result) == SplitextRoot(result.filename) \o "_analysis.md"

(***************************************************************************)
(* The files a user may upload and the syllabus texts they may enter       *)
(***************************************************************************)
UploadPool ==
    { [name |-> "course.imscc", size |-> 4096, content |-> "export of Monday", valid |-> TRUE],
      [name |-> "course.imscc", size |-> 4096, content |-> "export of Friday", valid |-> TRUE],
      [name |-> "rivers.v2.imscc", size |-> 5120, content |-> "rivers", valid |-> TRUE],
      [name |-> "notes.zip", size |-> 12, content |-> "no archive", valid |-> FALSE] }

SyllabusPool == {"", "Final exam on May 1", "Final exam on May 8", "Final exam on May 1 \n"}

InitApp ==
    /\ pc = "page"
    /\ call_args = <<NoFile, "">>
    /\ call_result = [last_result |-> NoResult, last_file_id |-> None, displayed |-> NoResult]
    /\ IdlePub /\ IdleXml /\ IdleRes /\ IdleRead /\ IdleMod /\ IdleCmp

\* the user uploads a file or removes the uploaded one
UploadFile ==
    /\ \E f \in UploadPool \cup {NoFile} :
          /\ f # call_args[1]
          /\ call_args' = <<f, call_args[2]>>
          /\ call_result' = Script(call_result, f, call_args[2], FALSE)
    /\ UNCHANGED <<pc, vars_pub, vars_xml, vars_res, archive, vars_wiki, objectives, vars_mod,
                   vars_cmp>>

\* the user changes the syllabus text (the box is there once a file is)
EditSyllabus ==
    /\ call_args[1] # NoFile
    /\ \E s \in SyllabusPool :
          /\ s # call_args[2]
          /\ call_args' = <<call_args[1], s>>
          /\ call_result' = Script(call_result, call_args[1], s, FALSE)
    /\ UNCHANGED <<pc, vars_pub, vars_xml, vars_res, archive, vars_wiki, objectives, vars_mod,
                   vars_cmp>>

\* the user presses Run Analysis
PressRun ==
    /\ call_args[1] # NoFile
    /\ call_result' = Script(call_result, call_args[1], call_args[2], TRUE)
    /\ UNCHANGED <<pc, vars_pub, vars_xml, vars_res, archive, vars_wiki, objectives, vars_mod,
                   vars_cmp, call_args>>

\* the user uses another widget of the page (a tab, the download button)
OtherInteraction ==
    /\ call_result' = Script(call_result, call_args[1], call_args[2], FALSE)
    /\ UNCHANGED <<pc, vars_pub, vars_xml, vars_res, archive, vars_wiki, objectives, vars_mod,
                   vars_cmp, call_args>>

NextApp == UploadFile \/ EditSyllabus \/ PressRun \/ OtherInteraction

SpecApp == InitApp /\ [][NextApp]_vars

\* C30: after every run of the script, the result displayed and offered
\* for download was computed from the file now uploaded and the syllabus
\* text now entered; a cached result is displayed only when neither has
\* changed since it was computed, and a run whose analysis fails displays
\* nothing
C30_DisplayedIsCurrent ==
    /\ call_result.displayed # NoResult =>
          /\ call_args[1] # NoFile
          /\ call_result.displayed.content = call_args[1].content
          /\ call_result.displayed.syllabus = Strip(call_args[2])
          /\ DownloadName(call_result.displayed)
                = SplitextRoot(call_args[1].name) \o "_analysis.md"
    /\ (call_args[1] # NoFile /\ ~call_args[1].valid) => call_result.displayed = NoResult

=============================================================================
